---- MODULE Spec2Model ----
(***************************************************************************)
(* A model of stable-map: a hash map whose values live in a sparse vector  *)
(* (PosVec) behind a min-ordered free list (LinearStorage).  The position  *)
(* cells (Box<Data>) that Pos<InUse>, Pos<Stored> and Pos<Free> point to   *)
(* are modelled as a heap, so that the aliasing between the handle kept in *)
(* the hash index and the one kept in the slot is explicit.                *)
(***************************************************************************)
EXTENDS Integers, Sequences, FiniteSets, TLC

\* ------------------------------------------------------------------ bounds
\* Keys and values of the general specification (Spec).
NumKeys == 3
NumVals == 2
\* Tag::next() is a global counter; clear() is allowed while tag < MaxTag.
MaxTag == 1
\* Keys of the threshold specification (SpecBig).
BigNumKeys == 18
\* Keys of the specification of two maps (SpecClone).
NumCloneKeys == 2
\* The N of get_many_mut::<Q, N>.
ManyLen == 2
\* Keys of the specification of compaction (SpecCompact).
NumCompactKeys == 4

\* linear_storage.rs: `(self.values.len() / 2).max(8)`
MinFree == 8

Keys == 1..NumKeys
Vals == 1..NumVals
BigKeys == 1..BigNumKeys
CloneKeys == 1..NumCloneKeys
CompactKeys == 1..NumCompactKeys

VARIABLES
    key_to_pos,   \* StableMap.key_to_pos: present key -> cell held by its Pos<InUse>
    tag,          \* PosVec.tag
    values,       \* PosVec.values: sequence of slots (index i is element i+1)
    free_list,    \* LinearStorage.free_list: set of cells held by Pos<Free>
    heap,         \* the allocated Data cells: cell id -> [tag, pos]
    ub,           \* an unchecked access has broken its safety requirement, or
                  \* an assertion of the test build has failed
    iter,         \* the Drain / extract_if iterator that borrows the map, if any
    depth,        \* how many of the last calls are remembered (0, 1 or 2)
    op,           \* the last call: its name, arguments and result
    pre,          \* index_len(), the free indices and the key's index at that call
    before,       \* the op and pre of the call before the last
    walk,         \* a walk over the indices 0..index_len()-1, if one is under way
    other,        \* a second map of the caller (a clone), if there is one; its
                  \* cells live in the same heap
    peak          \* the largest len() since the last clear, drain or performed
                  \* compaction, where a specification keeps track of it

vars == <<key_to_pos, tag, values, free_list, heap, ub, iter, depth, op, pre, before,
          walk, other, peak>>

\* ------------------------------------------------------------- primitives
\* Option<T>
None == [some |-> FALSE]
Some(v) == [some |-> TRUE, v |-> v]

\* Option<PositionedValue<V>>: a slot of PosVec.values
EmptySlot == [some |-> FALSE]
PositionedValue(pos, value) == [some |-> TRUE, pos |-> pos, value |-> value]

Max(a, b) == IF a >= b THEN a ELSE b

\* The least element of a non-empty set of integers.
MinOf(S) == CHOOSE x \in S : \A y \in S : x <= y

\* The empty function (an empty hash table, an empty heap).
EmptyFn == [x \in {} |-> 0]

\* f without the argument x.
Without(f, x) == [y \in DOMAIN f \ {x} |-> f[y]]

\* f without the arguments in S.
WithoutAll(f, S) == [y \in DOMAIN f \ S |-> f[y]]

\* Box::new: a fresh cell; the allocator's choice of address is immaterial,
\* the least unused id is taken.
NewCell(h) == MinOf({n \in 1..(Cardinality(DOMAIN h) + 1) : n \notin DOMAIN h})

\* The storage as one record, for the operators below.
Storage ==
    [tag |-> tag, values |-> values, free_list |-> free_list, heap |-> heap, ub |-> ub]

\* ------------------------------------------------------------------- Pos
\* Pos<Free>::new
PosNewZero(h, t, pos) ==
    LET c == NewCell(h)
    IN  [heap |-> h @@ (c :> [tag |-> t, pos |-> 0]), pos |-> c]
PosNew(h, t, pos) ==
    LET c == NewCell(h)
    IN  [heap |-> h @@ (c :> [tag |-> t, pos |-> pos]), pos |-> c]

\* Pos<T>::get / Pos<InUse>::get_unchecked: the index stored in the cell.
\* Reading a freed cell is undefined; -1 stands for that read.
PosGet(h, c) == IF c \in DOMAIN h THEN h[c].pos ELSE -1

\* Pos<T>::tag / tag_unchecked
PosTag(h, c) == IF c \in DOMAIN h THEN h[c].tag ELSE -1

\* Drop for Pos<Free> / Pos<Stored>: the owner frees the cell.
PosDropLeak(h, c) == h
PosDrop(h, c) == Without(h, c)

\* Pos<Stored>::set: the stored cell takes the index of `free`, which is
\* consumed (and dropped) by the call.
PosSetKeep(h, stored, free) == PosDrop(h, free)
PosSet(h, stored, free) ==
    LET idx == PosGet(h, free)
    IN  PosDrop([h EXCEPT ![stored].pos = idx], free)

\* ---------------------------------------------------------------- PosVec
\* Vec::get: the slot at index i, if in bounds.
InBounds(vs, i) == i >= 0 /\ i < Len(vs)
Slot(vs, i) == vs[i + 1]

\* A valid handle: its cell is allocated, its index is in bounds.
Addressable(s, c) == c \in DOMAIN s.heap /\ InBounds(s.values, PosGet(s.heap, c))

\* PosVec::len
PvLen(s) == Len(s.values)

\* PosVec::create_pos
PvCreatePosNoPush(s) ==
    LET r == PosNew(s.heap, s.tag, Len(s.values))
    IN  [s |-> [s EXCEPT !.heap = r.heap], pos |-> r.pos]
PvCreatePos(s) ==
    LET r == PosNew(s.heap, s.tag, Len(s.values))
    IN  [s   |-> [s EXCEPT !.heap = r.heap, !.values = Append(@, EmptySlot)],
         pos |-> r.pos]

\* PosVec::store: writes Some(PositionedValue) at the index of `pos`, without
\* looking at what is there (get_unchecked_mut + ptr::write); the test build
\* asserts that `pos` has the tag of the vector and that the slot is None.
PvStore(s, pos, value) ==
    LET idx == PosGet(s.heap, pos)
    IN  IF Addressable(s, pos) /\ PosTag(s.heap, pos) = s.tag
        THEN [s   |-> [s EXCEPT !.values[idx + 1] = PositionedValue(pos, value),
                                !.ub = @ \/ Slot(s.values, idx).some],
              pos |-> pos]
        ELSE [s |-> [s EXCEPT !.ub = TRUE], pos |-> pos]

\* PosVec::get: bounds-checked access by index.
PvGet(s, i) ==
    IF InBounds(s.values, i) /\ Slot(s.values, i).some
    THEN Some(Slot(s.values, i).value)
    ELSE None

\* PosVec::get_mut: bounds-checked access by index, followed by a write of
\* `value` through the reference if there is one.
PvGetMutRaw(s, i, value) ==
    IF InBounds(s.values, i) /\ Slot(s.values, i).some
    THEN [s EXCEPT !.values[i + 1].value = value]
    ELSE [s EXCEPT !.ub = TRUE]
PvGetMut(s, i, value) ==
    IF InBounds(s.values, i) /\ Slot(s.values, i).some
    THEN [s EXCEPT !.values[i + 1].value = value]
    ELSE s

\* PosVec::get_unchecked: access through a Pos<InUse>; undefined unless the
\* handle addresses an occupied slot, and the test build asserts that the
\* handle has the tag of the vector.
PvGetUncheckedDefined(s, pos) ==
    /\ Addressable(s, pos)
    /\ PosTag(s.heap, pos) = s.tag
    /\ Slot(s.values, PosGet(s.heap, pos)).some
PvGetUnchecked(s, pos) ==
    IF PvGetUncheckedDefined(s, pos)
    THEN [defined |-> TRUE, v |-> Slot(s.values, PosGet(s.heap, pos)).value]
    ELSE [defined |-> FALSE]

\* PosVec::get_unchecked_mut followed by a write of `value`.
PvSetUnchecked(s, pos, value) ==
    IF PvGetUncheckedDefined(s, pos)
    THEN [s EXCEPT !.values[PosGet(s.heap, pos) + 1].value = value]
    ELSE [s EXCEPT !.ub = TRUE]

\* PosVec::take_unchecked: Option::take on the slot, then deactivate the pair
\* into a Pos<Free> on the same cell.
PvTakeUncheckedPop(s, pos) ==
    IF PvGetUncheckedDefined(s, pos)
    THEN LET idx == PosGet(s.heap, pos)
         IN  [s     |-> [s EXCEPT !.values = IF idx + 1 = Len(@)
                                             THEN SubSeq(@, 1, Len(@) - 1)
                                             ELSE [@ EXCEPT ![idx + 1] = EmptySlot]],
              value |-> Slot(s.values, idx).value,
              pos   |-> pos]
    ELSE [s |-> [s EXCEPT !.ub = TRUE], value |-> 0, pos |-> pos]
PvTakeUncheckedKeep(s, pos) ==
    IF PvGetUncheckedDefined(s, pos)
    THEN [s     |-> s,
          value |-> Slot(s.values, PosGet(s.heap, pos)).value,
          pos   |-> pos]
    ELSE [s |-> [s EXCEPT !.ub = TRUE], value |-> 0, pos |-> pos]
PvTakeUnchecked(s, pos) ==
    IF PvGetUncheckedDefined(s, pos)
    THEN LET idx == PosGet(s.heap, pos)
         IN  [s     |-> [s EXCEPT !.values[idx + 1] = EmptySlot,
                                  !.ub = @ \/ Slot(s.values, idx).pos # pos],
              value |-> Slot(s.values, idx).value,
              pos   |-> pos]
    ELSE [s |-> [s EXCEPT !.ub = TRUE], value |-> 0, pos |-> pos]

\* MinMaxHeap::pop_min on the free list: the Pos<Free> with the least index.
PopMax(s) ==
    CHOOSE c \in s.free_list :
        \A d \in s.free_list : PosGet(s.heap, d) <= PosGet(s.heap, c)
PopMin(s) ==
    CHOOSE c \in s.free_list :
        \A d \in s.free_list : PosGet(s.heap, c) <= PosGet(s.heap, d)

\* PosVec::compact with `smallest_free` = || free_list.pop_min().
\* PvCompactInner is the inner `while let Some(value) = self.values.pop()`
\* for one `free`; PvCompact is the outer `while let Some(free)`.
\* The relocation of compact: entry.pos.set(free), then the entry is written
\* to the slot at the index it now has (get_unchecked_mut + ptr::write).
RelocateLose(s, entry, free) ==
    [s EXCEPT !.heap = PosSet(@, entry.pos, free)]
Relocate(s, entry, free) ==
    LET idx == PosGet(s.heap, free)
    IN  [s EXCEPT !.heap = PosSet(@, entry.pos, free),
                  !.values[idx + 1] = entry,
                  !.ub = \/ @
                         \/ Slot(s.values, idx).some
                         \/ PosTag(s.heap, entry.pos) # PosTag(s.heap, free)]

RECURSIVE PvCompact(_)
RECURSIVE PvCompactInner(_, _)
PvCompactInner(s, free) ==
    IF s.values = <<>>
    THEN \* pop() returned None: `free` goes out of scope, next outer round
         PvCompact([s EXCEPT !.heap = PosDrop(@, free)])
    ELSE LET value  == s.values[Len(s.values)]
             popped == [s EXCEPT !.values = SubSeq(@, 1, Len(@) - 1)]
         IN  IF ~value.some
             THEN PvCompactInner(popped, free)
             ELSE IF PosGet(s.heap, free) < Len(popped.values)
                  THEN \* relocate the entry; break
                       PvCompact(Relocate(popped, value, free))
                  ELSE \* self.values.push(Some(entry)); break 'outer
                       [s EXCEPT !.heap = PosDrop(@, free)]
PvCompact(s) ==
    IF s.free_list = {}
    THEN s
    ELSE LET free == PopMin(s)
         IN  PvCompactInner([s EXCEPT !.free_list = @ \ {free},
                                      !.ub = @ \/ PosTag(s.heap, free) # s.tag],
                            free)

\* The cells owned by the slots of a vector (their Pos<Stored>).
StoredCells(vs) == {vs[i].pos : i \in {j \in DOMAIN vs : vs[j].some}}

\* Tag::next (the test build's counter): the counter is past every tag it
\* has handed out; the tags in use are those of the caller's maps.
TagNext(t) == Max(t, other.tag) + 1

\* PosVec::clear: a new tag; Vec::clear drops every slot and with it the
\* Pos<Stored> that owns its cell.
PvClear(s) ==
    [s EXCEPT !.tag = TagNext(@),
              !.values = <<>>,
              !.heap = WithoutAll(@, StoredCells(s.values))]

\* --------------------------------------------------------- LinearStorage
\* LinearStorage::len
LsLen(s) == PvLen(s)

\* LinearStorage::insert
LsInsertGrow(s, value) ==
    LET r == PvCreatePos(s)
    IN  PvStore(r.s, r.pos, value)
LsInsert(s, value) ==
    IF s.free_list # {}
    THEN LET pos == PopMin(s)
         IN  PvStore([s EXCEPT !.free_list = @ \ {pos}], pos, value)
    ELSE LET r == PvCreatePos(s)
         IN  PvStore(r.s, r.pos, value)

\* LinearStorage::take_unchecked
LsTakeUncheckedNoPush(s, pos) ==
    LET r == PvTakeUnchecked(s, pos)
    IN  [s |-> r.s, value |-> r.value]
LsTakeUncheckedCompact(s, pos) ==
    LET r == PvTakeUnchecked(s, pos)
        t == [r.s EXCEPT !.free_list = @ \cup {r.pos}]
    IN  [s |-> PvCompact(t), value |-> r.value]
LsTakeUnchecked(s, pos) ==
    LET r == PvTakeUnchecked(s, pos)
    IN  [s |-> [r.s EXCEPT !.free_list = @ \cup {r.pos}], value |-> r.value]

\* MinMaxHeap::clear on the free list: every Pos<Free> is dropped.
FreeListClear(s) ==
    [s EXCEPT !.heap = WithoutAll(@, s.free_list), !.free_list = {}]

\* LinearStorage::clear
LsClearKeepFree(s) == PvClear(s)
LsClear(s) == FreeListClear(PvClear(s))

\* LinearStorage::force_compact
LsForceCompactKeepFree(s) == PvCompact(s)
LsForceCompact(s) == FreeListClear(PvCompact(s))

\* The bound of LinearStorage::compact
CompactBoundLen(s) == Max(Cardinality(StoredCells(s.values)) \div 2, MinFree)
CompactBound(s) == Max(Len(s.values) \div 2, MinFree)

\* LinearStorage::compact
LsCompactAlways(s) == LsForceCompact(s)
LsCompact(s) ==
    IF Cardinality(s.free_list) <= CompactBound(s)
    THEN s
    ELSE LsForceCompact(s)

\* ------------------------------------------------------------- StableMap
\* StableMap::len (HashMap::len of key_to_pos)
MapLen == Cardinality(DOMAIN key_to_pos)

\* StableMap::index_len
IndexLen == LsLen(Storage)

\* StableMap::contains_key
ContainsKey(k) == k \in DOMAIN key_to_pos

\* StableMap::get_index
GetIndex(k) ==
    IF k \in DOMAIN key_to_pos THEN Some(PosGet(heap, key_to_pos[k])) ELSE None

\* StableMap::get: Some(value) through the handle; `undefined` marks a
\* get_unchecked whose safety requirement does not hold.
Get(k) ==
    IF k \in DOMAIN key_to_pos
    THEN LET r == PvGetUnchecked(Storage, key_to_pos[k])
         IN  IF r.defined THEN Some(r.v) ELSE [some |-> TRUE, undefined |-> TRUE]
    ELSE None

\* StableMap::get_key_value
GetKeyValue(k) ==
    IF k \in DOMAIN key_to_pos
    THEN LET r == PvGetUnchecked(Storage, key_to_pos[k])
         IN  IF r.defined
             THEN Some([key |-> k, value |-> r.v])
             ELSE [some |-> TRUE, undefined |-> TRUE]
    ELSE None

\* StableMap::get_by_index
GetByIndex(i) == PvGet(Storage, i)

\* The indices of the Pos<Free> on the free list.
FreeIndices == {PosGet(heap, c) : c \in free_list}

\* The indices i < index_len() whose slot is None.
EmptyIndices == {i \in 0..(Len(values) - 1) : ~Slot(values, i).some}

\* The indices whose slot is Some.
OccupiedIndices == {i \in 0..(Len(values) - 1) : Slot(values, i).some}

NoIter == [kind |-> "none"]

\* No iterator borrows the map and no safety requirement has been broken:
\* the map's methods can be called.
Callable == iter = NoIter /\ ~ub

\* The storage after a call.
SetStorage(s) ==
    /\ tag' = s.tag
    /\ values' = s.values
    /\ free_list' = s.free_list
    /\ heap' = s.heap
    /\ ub' = s.ub

\* No walk over the indices is under way.
NoWalk == [on |-> FALSE]

\* The caller has no second map.
NoMap ==
    [on |-> FALSE, key_to_pos |-> EmptyFn, tag |-> -1, values |-> <<>>, free_list |-> {}]

\* No track is kept of the largest len().
NoPeak == -1

\* The calls after which the storage holds no free slot whatever it held
\* before: clear(), drain() and the drop of its iterator, force_compact(),
\* and compact() when the free list is longer than its bound.
Resets(name) ==
    \/ name \in {"clear", "drain", "drain_drop", "force_compact"}
    \/ name = "compact" /\ Cardinality(free_list) > CompactBound(Storage)

\* The record of a call: which method, on which key, with which value, and
\* what it returned; and the index of the key, index_len() and the free
\* indices at the time of the call.  A specification remembers the last
\* `depth` calls.  A walk that is under way loses sight of the keys that the
\* call takes out of the map.
Called(name, key, val, ret) ==
    /\ other' = other
    /\ peak' = IF peak = NoPeak
               THEN peak
               ELSE IF Resets(name)
                    THEN Cardinality(DOMAIN key_to_pos')
                    ELSE Max(peak, Cardinality(DOMAIN key_to_pos'))
    /\ walk' = IF walk.on
               THEN [walk EXCEPT !.alive = @ \cap DOMAIN key_to_pos']
               ELSE walk
    /\ op' = IF depth >= 1
             THEN [name |-> name, key |-> key, val |-> val, ret |-> ret]
             ELSE op
    /\ pre' = IF depth >= 1
              THEN [idx |-> GetIndex(key), len |-> IndexLen, free |-> FreeIndices]
              ELSE pre
    /\ before' = IF depth >= 2 THEN [op |-> op, pre |-> pre] ELSE before
    /\ depth' = depth

\* The vacant branch shared by every insertion: LinearStorage::insert, then
\* the new Pos<InUse> goes into the hash index.
InsertVacantGrow(k, v) ==
    LET r == LsInsertGrow(Storage, v)
    IN  /\ SetStorage(r.s)
        /\ key_to_pos' = key_to_pos @@ (k :> r.pos)
InsertVacant(k, v) ==
    LET r == LsInsert(Storage, v)
    IN  /\ SetStorage(r.s)
        /\ key_to_pos' = key_to_pos @@ (k :> r.pos)

\* The occupied branch of insert: mem::replace through the handle.
ReplaceOccupiedMove(k, v) ==
    LET r == LsInsert(LsTakeUnchecked(Storage, key_to_pos[k]).s, v)
    IN  /\ SetStorage(r.s)
        /\ key_to_pos' = [key_to_pos EXCEPT ![k] = r.pos]
ReplaceOccupied(k, v) ==
    /\ SetStorage(PvSetUnchecked(Storage, key_to_pos[k], v))
    /\ UNCHANGED key_to_pos

\* StableMap::insert
Insert(k, v) ==
    /\ Callable
    /\ IF ContainsKey(k) THEN ReplaceOccupied(k, v) ELSE InsertVacant(k, v)
    /\ Called("insert", k, v, Get(k))
    /\ UNCHANGED iter

\* VacantEntry::insert, VacantEntryRef::insert and the body of
\* insert_unique_unchecked: LinearStorage::insert, the new Pos<InUse> goes
\* into the hash index, and the value is borrowed back through the handle
\* (get_unchecked_mut).
VacantEntryInsertGrow(k, v) ==
    LET r == LsInsertGrow(Storage, v)
    IN  /\ SetStorage([r.s EXCEPT !.ub = @ \/ ~PvGetUncheckedDefined(r.s, r.pos)])
        /\ key_to_pos' = key_to_pos @@ (k :> r.pos)
VacantEntryInsert(k, v) ==
    LET r == LsInsert(Storage, v)
    IN  /\ SetStorage([r.s EXCEPT !.ub = @ \/ ~PvGetUncheckedDefined(r.s, r.pos)])
        /\ key_to_pos' = key_to_pos @@ (k :> r.pos)

\* VacantEntry::insert_entry, VacantEntryRef::insert_entry: the same without
\* the borrow.
VacantEntryInsertEntry(k, v) == InsertVacant(k, v)

\* OccupiedEntry::into_mut: the value is borrowed through the handle.
OccupiedEntryIntoMut(k) ==
    /\ ub' = (ub \/ ~PvGetUncheckedDefined(Storage, key_to_pos[k]))
    /\ UNCHANGED <<key_to_pos, tag, values, free_list, heap>>

\* StableMap::insert_unique_unchecked; the caller guarantees that k is absent.
InsertUniqueUnchecked(k, v) ==
    /\ Callable
    /\ ~ContainsKey(k)
    /\ VacantEntryInsert(k, v)
    /\ Called("insert_unique_unchecked", k, v, Some(v))
    /\ UNCHANGED iter

\* What try_insert returns: Err(OccupiedError { entry, value }) with the
\* occupied entry (its key() and get()) and the value handed in, or Ok with
\* the reference that VacantEntry::insert returns, read after the call.
TryInsertResult(k, v) ==
    IF ContainsKey(k)
    THEN [err |-> TRUE, entry |-> [key |-> k, get |-> Get(k)], value |-> v]
    ELSE [err |-> FALSE, ok |-> Get(k)']

\* StableMap::try_insert
TryInsertReplace(k, v) ==
    /\ Callable
    /\ IF ContainsKey(k) THEN ReplaceOccupied(k, v) ELSE InsertVacant(k, v)
    /\ Called("try_insert", k, v, TryInsertResult(k, v))
    /\ UNCHANGED iter
TryInsert(k, v) ==
    /\ Callable
    /\ IF ContainsKey(k)
       THEN UNCHANGED <<key_to_pos, tag, values, free_list, heap, ub>>
       ELSE VacantEntryInsert(k, v)
    /\ Called("try_insert", k, v, TryInsertResult(k, v))
    /\ UNCHANGED iter

\* StableMap::entry(k).insert(v)
EntryInsert(k, v) ==
    /\ Callable
    /\ IF ContainsKey(k) THEN ReplaceOccupied(k, v) ELSE InsertVacant(k, v)
    /\ Called("entry_insert", k, v, Some(v))
    /\ UNCHANGED iter

\* StableMap::entry(k).or_insert(v)
EntryOrInsert(k, v) ==
    /\ Callable
    /\ IF ContainsKey(k)
       THEN OccupiedEntryIntoMut(k)
       ELSE VacantEntryInsert(k, v)
    /\ Called("entry_or_insert", k, v, IF ContainsKey(k) THEN Get(k) ELSE Some(v))
    /\ UNCHANGED iter

\* The two entry APIs: entry(key) and entry_ref(&key).  Their methods have
\* the same bodies.
EntryForms == {"entry", "entry_ref"}

\* V::default()
DefaultVal == 1

\* Entry::insert / EntryRef::insert
EntryFormInsert(form, k, v) ==
    /\ Callable
    /\ IF ContainsKey(k) THEN ReplaceOccupied(k, v) ELSE VacantEntryInsertEntry(k, v)
    /\ Called(form \o ".insert", k, v, Get(k))
    /\ UNCHANGED iter

\* Entry::or_insert, or_insert_with, or_insert_with_key, or_default and the
\* same of EntryRef; v is the value handed in, returned by f, or the default.
OrHows == {"or_insert", "or_insert_with", "or_insert_with_key", "or_default"}
EntryFormOr(form, how, k, v) ==
    /\ Callable
    /\ how = "or_default" => v = DefaultVal
    /\ IF ContainsKey(k) THEN OccupiedEntryIntoMut(k) ELSE VacantEntryInsert(k, v)
    /\ Called(form \o "." \o how, k, v, Get(k))
    /\ UNCHANGED iter

\* match map.entry(k) { Entry::Vacant(e) => e.insert(v) }, and the same
\* through entry_ref
VacantInsert(form, k, v) ==
    /\ Callable
    /\ ~ContainsKey(k)
    /\ VacantEntryInsert(k, v)
    /\ Called(form \o ".vacant.insert", k, v, None)
    /\ UNCHANGED iter

\* match map.entry(k) { Entry::Vacant(e) => e.insert_entry(v) }
VacantInsertEntry(form, k, v) ==
    /\ Callable
    /\ ~ContainsKey(k)
    /\ VacantEntryInsertEntry(k, v)
    /\ Called(form \o ".vacant.insert_entry", k, v, None)
    /\ UNCHANGED iter

\* StableMap::get_mut(k) and a write through the returned reference.
GetMut(k, v) ==
    /\ Callable
    /\ IF ContainsKey(k)
       THEN ReplaceOccupied(k, v)
       ELSE UNCHANGED <<key_to_pos, tag, values, free_list, heap, ub>>
    /\ Called("get_mut", k, v, Get(k))
    /\ UNCHANGED iter

\* StableMap::get_by_index_mut(i) and a write through the returned reference.
GetByIndexMut(i, v) ==
    /\ Callable
    /\ SetStorage(PvGetMut(Storage, i, v))
    /\ UNCHANGED <<key_to_pos, iter>>
    /\ Called("get_by_index_mut", 0, [index |-> i, value |-> v], GetByIndex(i))

\* HashMap::get_many_mut / get_many_key_value_mut on the hash index: the
\* handle of every requested key that is present, None for the others; it
\* panics when two of the requests find the same entry.
HbGetManyMutNoCheck(ks) ==
    [panic |-> FALSE,
     ps    |-> [i \in DOMAIN ks |->
                  IF ks[i] \in DOMAIN key_to_pos THEN Some(key_to_pos[ks[i]]) ELSE None]]
HbGetManyMut(ks) ==
    IF \E i, j \in DOMAIN ks : i < j /\ ks[i] = ks[j] /\ ks[i] \in DOMAIN key_to_pos
    THEN [panic |-> TRUE]
    ELSE [panic |-> FALSE,
          ps    |-> [i \in DOMAIN ks |->
                       IF ks[i] \in DOMAIN key_to_pos
                       THEN Some(key_to_pos[ks[i]])
                       ELSE None]]

\* PosVec::get_many_unchecked_mut: for every Some(pos) a reference to the
\* value of the slot at the index of pos (`slot`, with the value read
\* through it); undefined unless pos addresses an occupied slot.
PvGetManyUncheckedMut(s, ps) ==
    [i \in DOMAIN ps |->
       IF ps[i].some
       THEN IF PvGetUncheckedDefined(s, ps[i].v)
            THEN [some |-> TRUE, slot |-> PosGet(s.heap, ps[i].v),
                  v |-> Slot(s.values, PosGet(s.heap, ps[i].v)).value]
            ELSE [some |-> TRUE, undefined |-> TRUE]
       ELSE None]

\* The caller writes ws[i] through the i-th reference, for every reference
\* it got; two live &mut to one slot, or a reference that is not defined,
\* are undefined behaviour.
RECURSIVE WriteRefs(_, _, _, _)
WriteRefs(s, refs, ws, i) ==
    IF i > Len(refs)
    THEN s
    ELSE IF ~refs[i].some
         THEN WriteRefs(s, refs, ws, i + 1)
         ELSE IF "undefined" \in DOMAIN refs[i]
                 \/ \E j \in 1..(i - 1) :
                       /\ refs[j].some
                       /\ "slot" \in DOMAIN refs[j]
                       /\ refs[j].slot = refs[i].slot
              THEN WriteRefs([s EXCEPT !.ub = TRUE], refs, ws, i + 1)
              ELSE WriteRefs([s EXCEPT !.values[refs[i].slot + 1].value = ws[i]],
                             refs, ws, i + 1)

\* The body shared by get_many_mut and get_many_key_value_mut, and the
\* writes of the caller through the references; a panic leaves the map as
\* it is.
GetMany(name, ks, ws) ==
    /\ Callable
    /\ LET h == HbGetManyMut(ks)
       IN  IF h.panic
           THEN /\ UNCHANGED <<key_to_pos, tag, values, free_list, heap, ub>>
                /\ Called(name, 0, [ks |-> ks, ws |-> ws], [panic |-> TRUE])
           ELSE LET refs == PvGetManyUncheckedMut(Storage, h.ps)
                IN  /\ SetStorage(WriteRefs(Storage, refs, ws, 1))
                    /\ UNCHANGED key_to_pos
                    /\ Called(name, 0, [ks |-> ks, ws |-> ws],
                              [panic |-> FALSE,
                               refs  |-> refs,
                               keys  |-> [i \in DOMAIN ks |->
                                            IF h.ps[i].some /\ name = "get_many_key_value_mut"
                                            THEN Some(ks[i])
                                            ELSE None]])
    /\ UNCHANGED iter

\* StableMap::get_many_mut
GetManyMut(ks, ws) == GetMany("get_many_mut", ks, ws)

\* StableMap::get_many_key_value_mut
GetManyKeyValueMut(ks, ws) == GetMany("get_many_key_value_mut", ks, ws)

\* The removal shared by remove, remove_entry and OccupiedEntry::remove: the
\* handle leaves the hash index, LinearStorage::take_unchecked frees its slot.
RemovePresent(k) ==
    /\ SetStorage(LsTakeUnchecked(Storage, key_to_pos[k]).s)
    /\ key_to_pos' = Without(key_to_pos, k)

\* StableMap::remove
Remove(k) ==
    /\ Callable
    /\ IF ContainsKey(k)
       THEN RemovePresent(k)
       ELSE UNCHANGED <<key_to_pos, tag, values, free_list, heap, ub>>
    /\ Called("remove", k, 0, Get(k))
    /\ UNCHANGED iter

\* StableMap::remove_entry
RemoveEntry(k) ==
    /\ Callable
    /\ IF ContainsKey(k)
       THEN RemovePresent(k)
       ELSE UNCHANGED <<key_to_pos, tag, values, free_list, heap, ub>>
    /\ Called("remove_entry", k, 0, Get(k))
    /\ UNCHANGED iter

\* OccupiedEntry::remove, reached through entry(k) when k is present.
EntryRemove(k) ==
    /\ Callable
    /\ ContainsKey(k)
    /\ RemovePresent(k)
    /\ Called("entry_remove", k, 0, Get(k))
    /\ UNCHANGED iter

\* Entry::and_replace_entry_with / OccupiedEntry::replace_entry_with: on an
\* occupied entry the value is taken out of the storage, f(k, v) returns r,
\* and for r = Some(w) the value w is inserted into the storage again.
OccupiedReplaceEntryWithDrop(k, r) ==
    LET t == LsTakeUnchecked(Storage, key_to_pos[k])
    IN  /\ SetStorage(t.s)
        /\ key_to_pos' = Without(key_to_pos, k)
OccupiedReplaceEntryWith(k, r) ==
    LET t == LsTakeUnchecked(Storage, key_to_pos[k])
    IN  IF r.some
        THEN LET i == LsInsert(t.s, r.v)
             IN  /\ SetStorage(i.s)
                 /\ key_to_pos' = [key_to_pos EXCEPT ![k] = i.pos]
        ELSE /\ SetStorage(t.s)
             /\ key_to_pos' = Without(key_to_pos, k)

\* What the closure of replace_entry_with is called with: the key and the
\* value take_unchecked has moved out of the storage.
ReplaceCall(k) ==
    [key |-> k, value |-> LsTakeUnchecked(Storage, key_to_pos[k]).value]

\* What replace_entry_with hands back (`calls` is what f was called with):
\* the hash map's entry is Occupied when the closure returned Some.
ReplaceResult(k, r) ==
    IF ContainsKey(k)
    THEN [calls |-> {ReplaceCall(k)},
          entry |-> IF r.some THEN "Occupied" ELSE "Vacant"]
    ELSE [calls |-> {}, entry |-> "Vacant"]

AndReplaceEntryWith(k, r) ==
    /\ Callable
    /\ IF ContainsKey(k)
       THEN OccupiedReplaceEntryWith(k, r)
       ELSE UNCHANGED <<key_to_pos, tag, values, free_list, heap, ub>>
    /\ Called("and_replace_entry_with", k, r, ReplaceResult(k, r))
    /\ UNCHANGED iter

\* OccupiedEntry::replace_entry_with, on the Entry::Occupied of entry(k)
ReplaceEntryWith(k, r) ==
    /\ Callable
    /\ ContainsKey(k)
    /\ OccupiedReplaceEntryWith(k, r)
    /\ Called("replace_entry_with", k, r, ReplaceResult(k, r))
    /\ UNCHANGED iter

\* The orders in which the hash index may visit the keys in S.
Orders(S) ==
    {o \in [1..Cardinality(S) -> S] : \A i, j \in DOMAIN o : i # j => o[i] # o[j]}

\* The loop of StableMap::retain over the hash index in the order `order`:
\* the closure reaches the value of k through its handle and hands it to f
\* (`calls` lists what f was handed); f may write the value (w[k]) and
\* answers whether k is kept (k \notin rm); a key that is not kept leaves the
\* hash index and its slot is taken.
RECURSIVE RetainLoop(_, _, _, _, _)
RetainLoop(m, order, i, rm, w) ==
    IF i > Len(order)
    THEN m
    ELSE LET k == order[i]
             pos == m.key_to_pos[k]
             calls == Append(m.calls, [key |-> k, value |-> PvGetUnchecked(m.s, pos)])
         IN  IF k \in rm
             THEN RetainLoop([key_to_pos |-> Without(m.key_to_pos, k),
                              s |-> LsTakeUnchecked(m.s, pos).s,
                              calls |-> calls],
                             order, i + 1, rm, w)
             ELSE RetainLoop([m EXCEPT !.s = PvSetUnchecked(@, pos, w[k]),
                                       !.calls = calls],
                             order, i + 1, rm, w)

\* The map as the loops over the hash index see it.
MapRecord == [key_to_pos |-> key_to_pos, s |-> Storage, calls |-> <<>>]

\* StableMap::retain
Retain ==
    /\ Callable
    /\ \E rm \in SUBSET DOMAIN key_to_pos :
       \E w \in [DOMAIN key_to_pos \ rm -> Vals] :
       \E order \in Orders(DOMAIN key_to_pos) :
          LET m == RetainLoop(MapRecord, order, 1, rm, w)
          IN  /\ SetStorage(m.s)
              /\ key_to_pos' = m.key_to_pos
              /\ Called("retain", 0,
                        [rm |-> rm, w |-> w, ncalls |-> Len(m.calls),
                         handed |-> {m.calls[i] : i \in DOMAIN m.calls}],
                        None)
    /\ UNCHANGED iter

\* StableMap::extract_if: the iterator is created, nothing is visited yet.
ExtractIf ==
    /\ Callable
    /\ iter' = [kind |-> "extract_if", unvisited |-> DOMAIN key_to_pos]
    /\ UNCHANGED <<key_to_pos, tag, values, free_list, heap, ub>>
    /\ Called("extract_if", 0, 0, None)

\* The keys in `skipped` are visited and kept, f writing w[k] to each.
RECURSIVE VisitAll(_, _, _, _)
VisitAll(s, kp, skipped, w) ==
    IF skipped = {}
    THEN s
    ELSE LET k == MinOf(skipped)
         IN  VisitAll(PvSetUnchecked(s, kp[k], w[k]), kp, skipped \ {k}, w)

\* Iterator::next of the extract_if iterator: the hash index visits keys
\* until f answers true for one (`hit`), which leaves the hash index and
\* whose value is taken; or until no key is left.
ExtractNext ==
    /\ iter.kind = "extract_if"
    /\ ~ub
    /\ \E skipped \in SUBSET iter.unvisited :
       \E w \in [skipped -> Vals] :
          LET s1 == VisitAll(Storage, key_to_pos, skipped, w)
          IN  \/ /\ skipped = iter.unvisited
                 /\ SetStorage(s1)
                 /\ UNCHANGED key_to_pos
                 /\ iter' = [iter EXCEPT !.unvisited = {}]
                 /\ Called("extract_next", 0, 0, None)
              \/ \E hit \in iter.unvisited \ skipped :
                 \E hv \in Vals :
                    LET t == LsTakeUnchecked(
                               PvSetUnchecked(s1, key_to_pos[hit], hv),
                               key_to_pos[hit])
                    IN  /\ SetStorage(t.s)
                        /\ key_to_pos' = Without(key_to_pos, hit)
                        /\ iter' = [iter EXCEPT
                                      !.unvisited = @ \ (skipped \cup {hit})]
                        /\ Called("extract_next", hit, 0, Some(t.value))

\* The extract_if iterator is dropped: the keys not visited stay.
ExtractDropTakesRest ==
    /\ iter.kind = "extract_if"
    /\ ~ub
    /\ iter' = NoIter
    /\ LET m == RetainLoop(MapRecord,
                           CHOOSE o \in Orders(iter.unvisited) : TRUE,
                           1, iter.unvisited, EmptyFn)
       IN  SetStorage(m.s) /\ key_to_pos' = m.key_to_pos
    /\ Called("extract_drop", 0, [left |-> iter.unvisited], None)
ExtractDrop ==
    /\ iter.kind = "extract_if"
    /\ ~ub
    /\ iter' = NoIter
    /\ UNCHANGED <<key_to_pos, tag, values, free_list, heap, ub>>
    /\ Called("extract_drop", 0, [left |-> iter.unvisited], None)

\* extract_if(f) consumed to the end, the hash index visiting the keys in
\* the order `order`: the closure reaches the value of k through its handle
\* and hands it to f, which may write it (w[k]) and answers whether k is
\* taken (k \in take); Iter::next takes the value of a taken key out of the
\* storage and is called again until the hash index has no key left.
RECURSIVE ExtractIfAll(_, _, _, _, _)
ExtractIfAll(m, order, i, take, w) ==
    IF i > Len(order)
    THEN m
    ELSE LET k == order[i]
             pos == m.key_to_pos[k]
             calls == Append(m.calls, [key |-> k, value |-> PvGetUnchecked(m.s, pos)])
             seen == IF k \in take THEN m.s ELSE PvSetUnchecked(m.s, pos, w[k])
         IN  ExtractIfAll([key_to_pos |-> IF k \in take
                                          THEN Without(m.key_to_pos, k)
                                          ELSE m.key_to_pos,
                           s |-> IF k \in take
                                 THEN LsTakeUnchecked(seen, pos).s
                                 ELSE seen,
                           calls |-> calls],
                          order, i + 1, take, w)

\* The (key, value) pairs of the map.
Pairs == {[key |-> k, value |-> Get(k).v] : k \in DOMAIN key_to_pos}

\* StableMap::drain: HashMap::drain moves the table into the iterator.  The
\* iterator is watched: `at_call` are the pairs the map held at the call,
\* `yielded` the pairs next() has returned, `count` how many times it
\* returned one.
Drain ==
    /\ Callable
    /\ tag < MaxTag
    /\ iter' = [kind    |-> "drain",
                rest    |-> key_to_pos,
                at_call |-> Pairs,
                yielded |-> {},
                count   |-> 0]
    /\ key_to_pos' = EmptyFn
    /\ Called("drain", 0, 0, None)
    /\ UNCHANGED <<tag, values, free_list, heap, ub>>

\* Drain::next
DrainNext ==
    /\ iter.kind = "drain"
    /\ ~ub
    /\ UNCHANGED key_to_pos
    /\ IF DOMAIN iter.rest = {}
       THEN /\ Called("drain_next", 0, 0, None)
            /\ UNCHANGED <<tag, values, free_list, heap, ub, iter>>
       ELSE \E k \in DOMAIN iter.rest :
               LET t == LsTakeUnchecked(Storage, iter.rest[k])
               IN  /\ SetStorage(t.s)
                   /\ iter' = [iter EXCEPT
                                 !.rest = Without(@, k),
                                 !.yielded = @ \cup {[key |-> k, value |-> t.value]},
                                 !.count = @ + 1]
                   /\ Called("drain_next", k, 0, Some(t.value))

\* Drain::drop: the storage is cleared, then the hash_map::Drain field is
\* dropped with the handles it still holds.
DrainDropNoClear ==
    /\ iter.kind = "drain"
    /\ ~ub
    /\ iter' = NoIter
    /\ UNCHANGED <<key_to_pos, tag, values, free_list, heap, ub>>
    /\ Called("drain_drop", 0,
              [left |-> DOMAIN iter.rest, yielded |-> iter.count], None)
DrainDrop ==
    /\ iter.kind = "drain"
    /\ ~ub
    /\ SetStorage(LsClear(Storage))
    /\ iter' = NoIter
    /\ UNCHANGED key_to_pos
    /\ Called("drain_drop", 0,
              [left |-> DOMAIN iter.rest, yielded |-> iter.count], None)

\* StableMap::clear
ClearStorageOnly ==
    /\ Callable
    /\ tag < MaxTag
    /\ UNCHANGED key_to_pos
    /\ SetStorage(LsClear(Storage))
    /\ Called("clear", 0, 0, None)
    /\ UNCHANGED iter
Clear ==
    /\ Callable
    /\ tag < MaxTag
    /\ key_to_pos' = EmptyFn
    /\ SetStorage(LsClear(Storage))
    /\ Called("clear", 0, 0, None)
    /\ UNCHANGED iter

\* clear() and the drop of a Drain one statement at a time, for the order in
\* which the hash index and the storage are emptied.
\* StableMap::clear, first statement: self.key_to_pos.clear()
ClearIndexKeep ==
    /\ Callable
    /\ tag < MaxTag
    /\ iter' = [kind |-> "clear"]
    /\ UNCHANGED <<key_to_pos, tag, values, free_list, heap, ub>>
    /\ Called("clear", 0, 0, None)
ClearIndex ==
    /\ Callable
    /\ tag < MaxTag
    /\ key_to_pos' = EmptyFn
    /\ iter' = [kind |-> "clear"]
    /\ UNCHANGED <<tag, values, free_list, heap, ub>>
    /\ Called("clear", 0, 0, None)

\* StableMap::clear, second statement: self.storage.clear()
ClearStorage ==
    /\ iter.kind = "clear"
    /\ SetStorage(LsClear(Storage))
    /\ iter' = NoIter
    /\ UNCHANGED <<key_to_pos, depth, op, pre, before, peak, walk, other>>

\* Drain::drop, the body: self.entries.clear().  The fields of the Drain are
\* dropped after the body has run, so the hash_map::Drain still holds the
\* handles it has not yielded.
DrainDropBody ==
    /\ iter.kind = "drain"
    /\ ~ub
    /\ SetStorage(LsClear(Storage))
    /\ iter' = [iter EXCEPT !.kind = "drain_drop"]
    /\ UNCHANGED key_to_pos
    /\ Called("drain_drop", 0,
              [left |-> DOMAIN iter.rest, yielded |-> iter.count], None)

\* Drain::drop, after the body: the field `drain` is dropped, and with it the
\* handles it still holds (a Pos<InUse> frees nothing).
DrainDropFields ==
    /\ iter.kind = "drain_drop"
    /\ iter' = NoIter
    /\ UNCHANGED <<key_to_pos, tag, values, free_list, heap, ub,
                   depth, op, pre, before, peak, walk, other>>

\* The handles the hash index holds: those in the map's table and those in
\* the table a hash_map::Drain has taken from it.
Range(f) == {f[x] : x \in DOMAIN f}
IndexHandles ==
    Range(key_to_pos)
        \cup (IF iter.kind \in {"drain", "drain_drop"} THEN Range(iter.rest) ELSE {})

\* StableMap::compact
Compact ==
    /\ Callable
    /\ SetStorage(LsCompact(Storage))
    /\ UNCHANGED <<key_to_pos, iter>>
    /\ Called("compact", 0, 0, None)

\* StableMap::force_compact
ForceCompact ==
    /\ Callable
    /\ SetStorage(LsForceCompact(Storage))
    /\ UNCHANGED <<key_to_pos, iter>>
    /\ Called("force_compact", 0, 0, None)

\* Vec::pop on the values of the PosVec: the vector without its last slot.
VecPopKeep(vs) == vs
VecPop(vs) == SubSeq(vs, 1, Len(vs) - 1)

\* force_compact() one loop step at a time, for how the loops of
\* PosVec::compact advance.  `iter` holds the borrow of the running call:
\* `at` is the loop the call is in ("outer": about to call smallest_free();
\* "inner": about to call self.values.pop(); "done": back in force_compact,
\* about to clear the free list), `free` the Pos<Free> the outer loop holds
\* and `start` the storage at the call.
NoFree == 0

ForceCompactCall ==
    /\ Callable
    /\ iter' = [kind |-> "compact", at |-> "outer", free |-> NoFree, start |-> Storage]
    /\ UNCHANGED <<key_to_pos, tag, values, free_list, heap, ub,
                   depth, op, pre, before, peak, walk, other>>

\* `while let Some(free) = smallest_free()`
CompactOuter ==
    /\ iter.kind = "compact"
    /\ iter.at = "outer"
    /\ IF free_list = {}
       THEN /\ iter' = [iter EXCEPT !.at = "done"]
            /\ UNCHANGED <<free_list, ub>>
       ELSE LET free == PopMin(Storage)
            IN  /\ free_list' = free_list \ {free}
                /\ ub' = (ub \/ PosTag(heap, free) # tag)
                /\ iter' = [iter EXCEPT !.at = "inner", !.free = free]
    /\ UNCHANGED <<key_to_pos, tag, values, heap, depth, op, pre, before, peak, walk, other>>

\* `while let Some(value) = self.values.pop()` and the body of the loop
CompactInner ==
    /\ iter.kind = "compact"
    /\ iter.at = "inner"
    /\ LET free == iter.free
       IN  IF values = <<>>
           THEN /\ SetStorage([Storage EXCEPT !.heap = PosDrop(@, free)])
                /\ iter' = [iter EXCEPT !.at = "outer", !.free = NoFree]
           ELSE LET value  == values[Len(values)]
                    popped == [Storage EXCEPT !.values = VecPop(@)]
                IN  IF ~value.some
                    THEN /\ SetStorage(popped)
                         /\ UNCHANGED iter
                    ELSE IF PosGet(heap, free) < Len(popped.values)
                         THEN /\ SetStorage(Relocate(popped, value, free))
                              /\ iter' = [iter EXCEPT !.at = "outer", !.free = NoFree]
                         ELSE /\ SetStorage([popped EXCEPT
                                               !.values = Append(@, value),
                                               !.heap = PosDrop(@, free)])
                              /\ iter' = [iter EXCEPT !.at = "done", !.free = NoFree]
    /\ UNCHANGED <<key_to_pos, depth, op, pre, before, peak, walk, other>>

\* back in LinearStorage::force_compact: self.free_list.clear(); return
ForceCompactReturn ==
    /\ iter.kind = "compact"
    /\ iter.at = "done"
    /\ SetStorage(FreeListClear(Storage))
    /\ iter' = NoIter
    /\ UNCHANGED <<key_to_pos, depth, op, pre, before, peak, walk, other>>

\* The Pos<Free> that a running operation holds outside the free list: the
\* `free` of compact's outer loop.
InFlight == IF iter.kind = "compact" /\ iter.at = "inner" THEN {iter.free} ELSE {}

\* A step of a running force_compact().
CompactStep == CompactOuter \/ CompactInner \/ ForceCompactReturn

\* ------------------------------------------------------------ two maps
\* A map as one record: its hash index and its storage.
SelfMap == [key_to_pos |-> key_to_pos, s |-> Storage]
OtherMap ==
    [key_to_pos |-> other.key_to_pos,
     s |-> [tag |-> other.tag, values |-> other.values,
            free_list |-> other.free_list, heap |-> heap, ub |-> ub]]

\* StableMap::len of a map record.
LenOf(m) == Cardinality(DOMAIN m.key_to_pos)

\* StableMap::get of a map record.
GetOf(m, k) ==
    IF k \in DOMAIN m.key_to_pos
    THEN LET r == PvGetUnchecked(m.s, m.key_to_pos[k])
         IN  IF r.defined THEN Some(r.v) ELSE [some |-> TRUE, undefined |-> TRUE]
    ELSE None

\* A comparison of the lengths alone.
MapEqLen(a, b) == LenOf(a) = LenOf(b)

\* PartialEq::eq: the lengths are compared, then every pair of `a` is
\* looked up in `b`.
MapEq(a, b) ==
    IF LenOf(a) # LenOf(b)
    THEN FALSE
    ELSE \A k \in DOMAIN a.key_to_pos : GetOf(b, k) = GetOf(a, k)

\* The cells a map owns: those of its slots and those of its free list.
CellsOf(m) == StoredCells(m.s.values) \cup m.s.free_list

\* StableMap::with_capacity_and_hasher: an empty map with a new tag.
WithCapacity(h, u) ==
    [key_to_pos |-> EmptyFn,
     s |-> [tag |-> TagNext(tag), values |-> <<>>, free_list |-> {},
            heap |-> h, ub |-> u]]

\* StableMap::index_len of a map record.
IndexLenOf(m) == LsLen(m.s)

\* The (key, value) pairs of a map record.
PairsOf(m) == {[key |-> k, value |-> GetOf(m, k)] : k \in DOMAIN m.key_to_pos}

\* A copy of the fields of `src`, handles included, in place of the loop.
CloneLoopShallow(m, src, order, i) ==
    [key_to_pos |-> src.key_to_pos,
     s |-> [m.s EXCEPT !.values = src.s.values, !.free_list = src.s.free_list]]

\* The loop of Clone::clone: the pairs of `src` are read through Iter::next
\* in the order `order` and put into `m` with insert_unique_unchecked.
RECURSIVE CloneLoop(_, _, _, _)
CloneLoop(m, src, order, i) ==
    IF i > Len(order)
    THEN m
    ELSE LET k == order[i]
             v == PvGetUnchecked([src.s EXCEPT !.heap = m.s.heap], src.key_to_pos[k])
             r == LsInsert(IF v.defined THEN m.s ELSE [m.s EXCEPT !.ub = TRUE],
                           IF v.defined THEN v.v ELSE 0)
         IN  CloneLoop([key_to_pos |-> m.key_to_pos @@ (k :> r.pos), s |-> r.s],
                       src, order, i + 1)

\* Clone::clone, the result becoming the caller's second map; a second map
\* the caller had before is dropped, and its cells with it.
Clone ==
    /\ Callable
    /\ TagNext(tag) <= MaxTag + 1
    /\ \E order \in Orders(DOMAIN key_to_pos) :
          LET m == CloneLoop(WithCapacity(heap, ub), SelfMap, order, 1)
          IN  /\ other' = [on |-> TRUE, key_to_pos |-> m.key_to_pos, tag |-> m.s.tag,
                           values |-> m.s.values, free_list |-> m.s.free_list]
              /\ heap' = WithoutAll(m.s.heap, CellsOf(OtherMap))
              /\ ub' = m.s.ub
    /\ UNCHANGED <<key_to_pos, tag, values, free_list, iter, depth, op, pre, before, peak,
                   walk>>

\* The caller turns to its second map: the next calls are made on it.
Turn ==
    /\ Callable
    /\ other.on
    /\ key_to_pos' = other.key_to_pos
    /\ tag' = other.tag
    /\ values' = other.values
    /\ free_list' = other.free_list
    /\ other' = [on |-> TRUE, key_to_pos |-> key_to_pos, tag |-> tag,
                 values |-> values, free_list |-> free_list]
    /\ UNCHANGED <<heap, ub, iter, depth, op, pre, before, peak, walk>>

\* ------------------------------------------------------------ index walk
\* The walk of the type's example (execute_callbacks): it reads index_len()
\* once, visits the indices below it in order with get_by_index, and lets
\* go of the map between two visits so that others can call it.  `alive` are
\* the keys present at the start that have not left the map since, `seen`
\* the keys whose slot a visit returned, `twice` those returned again.
WalkStart ==
    /\ Callable
    /\ ~walk.on
    /\ walk' = [on    |-> TRUE,
                n     |-> IndexLen,
                i     |-> 0,
                alive |-> DOMAIN key_to_pos,
                seen  |-> {},
                twice |-> {}]
    /\ UNCHANGED <<key_to_pos, tag, values, free_list, heap, ub, iter,
                   depth, op, pre, before, peak, other>>

\* The keys whose value get_by_index(i) returns.
KeysAt(i) ==
    IF GetByIndex(i).some
    THEN {k \in DOMAIN key_to_pos : GetIndex(k) = Some(i)}
    ELSE {}

\* One round of `for i in 0..n`: get_by_index(i), then the next index.
WalkVisit ==
    /\ Callable
    /\ walk.on
    /\ walk.i < walk.n
    /\ walk' = [walk EXCEPT !.i = @ + 1,
                            !.seen = @ \cup KeysAt(walk.i),
                            !.twice = @ \cup (walk.seen \cap KeysAt(walk.i))]
    /\ UNCHANGED <<key_to_pos, tag, values, free_list, heap, ub, iter,
                   depth, op, pre, before, peak, other>>

\* The loop is over: the example compacts the map and returns.
WalkEnd ==
    /\ Callable
    /\ walk.on
    /\ walk.i = walk.n
    /\ SetStorage(LsCompact(Storage))
    /\ walk' = NoWalk
    /\ UNCHANGED <<key_to_pos, iter, depth, op, pre, before, peak, other>>

\* --------------------------------------------------------- specifications
\* StableMap::new
NoCall == [name |-> "new", key |-> 0, val |-> 0, ret |-> None]
NoPre == [idx |-> None, len |-> 0, free |-> {}]
New ==
    /\ key_to_pos = EmptyFn
    /\ tag = 0
    /\ values = <<>>
    /\ free_list = {}
    /\ heap = EmptyFn
    /\ ub = FALSE
    /\ iter = NoIter
    /\ op = NoCall
    /\ pre = NoPre
    /\ before = [op |-> NoCall, pre |-> NoPre]
    /\ walk = NoWalk
    /\ other = NoMap

\* The values f may return from replace_entry_with.
OptVals == {None} \cup {Some(v) : v \in Vals}

\* Every operation on a map of up to NumKeys keys; no call is remembered.
Init == New /\ depth = 0 /\ peak = NoPeak

Next ==
    \/ \E k \in Keys, v \in Vals : Insert(k, v)
    \/ \E k \in Keys, v \in Vals : InsertUniqueUnchecked(k, v)
    \/ \E k \in Keys, v \in Vals : TryInsert(k, v)
    \/ \E k \in Keys, v \in Vals : EntryInsert(k, v)
    \/ \E k \in Keys, v \in Vals : EntryOrInsert(k, v)
    \/ \E k \in Keys, v \in Vals : GetMut(k, v)
    \/ \E k \in Keys : Remove(k)
    \/ \E k \in Keys : RemoveEntry(k)
    \/ \E k \in Keys : EntryRemove(k)
    \/ \E k \in Keys, r \in OptVals : AndReplaceEntryWith(k, r)
    \/ Retain
    \/ ExtractIf
    \/ ExtractNext
    \/ ExtractDrop
    \/ Drain
    \/ DrainNext
    \/ DrainDrop
    \/ Clear
    \/ Compact
    \/ ForceCompact

Spec == Init /\ [][Next]_vars

\* The same map with the last call remembered, for what holds after a call.
InitCalls == New /\ depth = 1 /\ peak = NoPeak

NextCalls ==
    \/ \E k \in Keys, v \in Vals : Insert(k, v)
    \/ \E k \in Keys : Remove(k)
    \/ \E k \in Keys, r \in OptVals : AndReplaceEntryWith(k, r)
    \/ Clear
    \/ Compact
    \/ ForceCompact

SpecCalls == InitCalls /\ [][NextCalls]_vars

\* The calls that decide where values are stored, with the last call
\* remembered and every value the same.
InitIndices == New /\ depth = 1 /\ peak = NoPeak

NextIndices ==
    \/ \E k \in Keys : Insert(k, 1)
    \/ \E k \in Keys : Remove(k)
    \/ \E k \in Keys, r \in {None, Some(1)} : AndReplaceEntryWith(k, r)
    \/ Clear
    \/ Compact
    \/ ForceCompact

SpecIndices == InitIndices /\ [][NextIndices]_vars

\* Insertions, removals and clear() with the last two calls remembered; every
\* key is inserted with the same value, which plays no part in where it is
\* stored.
InitReuse == New /\ depth = 2 /\ peak = NoPeak

NextReuse ==
    \/ \E k \in Keys : Insert(k, 1)
    \/ \E k \in Keys : Remove(k)
    \/ Clear

SpecReuse == InitReuse /\ [][NextReuse]_vars

\* A map of up to BigNumKeys keys, large enough for the bound of compact():
\* key k is inserted when the k - 1 slots before it exist and no key from k
\* on is present, the smallest or the largest present key is removed, and
\* compact() is called at will; the last call is remembered.
InitBig == New /\ depth = 1 /\ peak = NoPeak

NextBig ==
    \/ \E k \in BigKeys :
          /\ k = IndexLen + 1
          /\ \A j \in DOMAIN key_to_pos : j < k
          /\ Insert(k, (k % NumVals) + 1)
    \/ \E k \in DOMAIN key_to_pos :
          /\ (\A j \in DOMAIN key_to_pos : k <= j)
             \/ (\A j \in DOMAIN key_to_pos : j <= k)
          /\ Remove(k)
    \/ Compact

SpecBig == InitBig /\ [][NextBig]_vars

\* The calls that look a key or an index up, with the last call remembered.
InitLookup == New /\ depth = 1 /\ peak = NoPeak

NextLookup ==
    \/ \E k \in Keys, v \in Vals : Insert(k, v)
    \/ \E k \in Keys : Remove(k)
    \/ \E k \in Keys : RemoveEntry(k)
    \/ \E k \in Keys, v \in Vals : GetMut(k, v)
    \/ \E i \in 0..NumKeys, v \in Vals : GetByIndexMut(i, v)

SpecLookup == InitLookup /\ [][NextLookup]_vars

\* drain() and its iterator among insertions and removals, with the last
\* call remembered.
InitDrain == New /\ depth = 1 /\ peak = NoPeak

NextDrain ==
    \/ \E k \in Keys, v \in Vals : Insert(k, v)
    \/ \E k \in Keys : Remove(k)
    \/ Drain
    \/ DrainNext
    \/ DrainDrop

SpecDrain == InitDrain /\ [][NextDrain]_vars

\* extract_if() and its iterator among insertions and removals, with the
\* last call remembered.
InitExtract == New /\ depth = 1 /\ peak = NoPeak

NextExtract ==
    \/ \E k \in Keys, v \in Vals : Insert(k, v)
    \/ \E k \in Keys : Remove(k)
    \/ ExtractIf
    \/ ExtractNext
    \/ ExtractDrop

SpecExtract == InitExtract /\ [][NextExtract]_vars

\* retain() among insertions and removals, with the last call remembered.
InitRetain == New /\ depth = 1 /\ peak = NoPeak

NextRetain ==
    \/ \E k \in Keys, v \in Vals : Insert(k, v)
    \/ \E k \in Keys : Remove(k)
    \/ Retain

SpecRetain == InitRetain /\ [][NextRetain]_vars

\* A map and its clone, the caller calling either; no call is remembered.
InitClone == New /\ depth = 0 /\ peak = NoPeak

NextClone ==
    \/ \E k \in CloneKeys, v \in Vals : Insert(k, v)
    \/ \E k \in CloneKeys : Remove(k)
    \/ Clear
    \/ ForceCompact
    \/ Clone
    \/ Turn

SpecClone == InitClone /\ [][NextClone]_vars

\* try_insert() among removals, with the last call remembered.
InitTryInsert == New /\ depth = 1 /\ peak = NoPeak

NextTryInsert ==
    \/ \E k \in Keys, v \in Vals : TryInsert(k, v)
    \/ \E k \in Keys : Remove(k)

SpecTryInsert == InitTryInsert /\ [][NextTryInsert]_vars

\* get_many_mut() and get_many_key_value_mut() among insertions and
\* removals, with the last call remembered.
InitMany == New /\ depth = 1 /\ peak = NoPeak

NextMany ==
    \/ \E k \in Keys, v \in Vals : Insert(k, v)
    \/ \E k \in Keys : Remove(k)
    \/ \E ks \in [1..ManyLen -> Keys], ws \in [1..ManyLen -> Vals] : GetManyMut(ks, ws)
    \/ \E ks \in [1..ManyLen -> Keys], ws \in [1..ManyLen -> Vals] :
          GetManyKeyValueMut(ks, ws)

SpecMany == InitMany /\ [][NextMany]_vars

\* force_compact() on maps of up to NumCompactKeys keys, so that it has
\* several keys to move; every value is the same and the last call is
\* remembered.
InitCompact == New /\ depth = 1 /\ peak = NoPeak

NextCompact ==
    \/ \E k \in CompactKeys : Insert(k, 1)
    \/ \E k \in CompactKeys : Remove(k)
    \/ ForceCompact

SpecCompact == InitCompact /\ [][NextCompact]_vars

\* force_compact() step by step, among insertions, removals and clear(), on
\* maps of up to NumCompactKeys keys; a running call always takes its next
\* step (the loops run on the caller's
\* thread and nothing else can touch the map meanwhile).
InitSteps == New /\ depth = 0 /\ peak = NoPeak

NextSteps ==
    \/ \E k \in CompactKeys : Insert(k, 1)
    \/ \E k \in CompactKeys : Remove(k)
    \/ Clear
    \/ ForceCompactCall
    \/ CompactOuter
    \/ CompactInner
    \/ ForceCompactReturn

SpecSteps == InitSteps /\ [][NextSteps]_vars /\ WF_vars(CompactStep)

\* clear() and drain() statement by statement.
InitClear == New /\ depth = 0 /\ peak = NoPeak

NextClear ==
    \/ \E k \in Keys, v \in Vals : Insert(k, v)
    \/ \E k \in Keys : Remove(k)
    \/ ClearIndex
    \/ ClearStorage
    \/ Drain
    \/ DrainNext
    \/ DrainDropBody
    \/ DrainDropFields

SpecClear == InitClear /\ [][NextClear]_vars

\* Every way of inserting a key, with the last call remembered.
InitInsert == New /\ depth = 1 /\ peak = NoPeak

NextInsert ==
    \/ \E k \in Keys, v \in Vals : Insert(k, v)
    \/ \E k \in Keys, v \in Vals : InsertUniqueUnchecked(k, v)
    \/ \E k \in Keys, v \in Vals : TryInsert(k, v)
    \/ \E f \in EntryForms, k \in Keys, v \in Vals : EntryFormInsert(f, k, v)
    \/ \E f \in EntryForms, h \in OrHows, k \in Keys, v \in Vals : EntryFormOr(f, h, k, v)
    \/ \E f \in EntryForms, k \in Keys, v \in Vals : VacantInsert(f, k, v)
    \/ \E f \in EntryForms, k \in Keys, v \in Vals : VacantInsertEntry(f, k, v)
    \/ \E k \in Keys : Remove(k)

SpecInsert == InitInsert /\ [][NextInsert]_vars

\* replace_entry_with and and_replace_entry_with among insertions and
\* removals, with the last call remembered.
InitReplace == New /\ depth = 1 /\ peak = NoPeak

NextReplace ==
    \/ \E k \in Keys, v \in Vals : Insert(k, v)
    \/ \E k \in Keys : Remove(k)
    \/ \E k \in Keys, r \in OptVals : ReplaceEntryWith(k, r)
    \/ \E k \in Keys, r \in OptVals : AndReplaceEntryWith(k, r)

SpecReplace == InitReplace /\ [][NextReplace]_vars

\* Every operation of Spec, with track kept of the largest len() since the
\* last clear, drain or performed compaction.
InitPeak == New /\ depth = 0 /\ peak = 0

SpecPeak == InitPeak /\ [][Next]_vars

\* A walk over the indices while others insert and remove keys.
InitWalk == New /\ depth = 0 /\ peak = NoPeak

NextWalk ==
    \/ \E k \in Keys : Insert(k, 1)
    \/ \E k \in Keys : Remove(k)
    \/ WalkStart
    \/ WalkVisit
    \/ WalkEnd

SpecWalk == InitWalk /\ [][NextWalk]_vars

\* ------------------------------------------------------------------ claims
\* The keys present before and after a step.
Staying == DOMAIN key_to_pos \cap (DOMAIN key_to_pos')

\* C1: the index of a key is the same after any call as before it, as long
\* as the key stays in the map and the call is none of compact(),
\* force_compact() and clear().  Entry::and_replace_entry_with breaks it: it
\* takes the value out of its slot and stores the replacement through the
\* free list.
C1_IndexStable ==
    [][op'.name \notin {"compact", "force_compact", "clear"}
       => \A k \in Staying : GetIndex(k)' = GetIndex(k)]_vars

\* C11: while a walk is under way and others only insert and remove keys,
\* index_len() stays at or above the length the walk read, get_by_index is
\* None for every index whose slot is empty, and every key that was present
\* at the start and has stayed since is returned at no two indices, has been
\* returned once its index is passed, and has been returned exactly once
\* when the walk has ended.
C11_WalkSeesStayingKeys ==
    walk.on =>
        /\ walk.n <= IndexLen
        /\ \A i \in 0..(walk.n - 1) : i \in EmptyIndices => GetByIndex(i) = None
        /\ walk.twice \cap walk.alive = {}
        /\ \A k \in walk.alive :
              /\ GetIndex(k).some
              /\ GetIndex(k).v < walk.n
              /\ GetIndex(k).v < walk.i => k \in walk.seen
        /\ walk.i = walk.n => walk.alive \subseteq walk.seen

\* A walk has ended after a key it had passed was removed, a key ahead of it
\* was removed, and a key that stayed was returned.
C11_Witness ==
    /\ walk.on
    /\ walk.i = walk.n
    /\ walk.n >= 3
    /\ walk.alive # {}
    /\ walk.seen \ walk.alive # {}
    /\ Cardinality(walk.seen) < walk.n

\* C2: in every reachable state and for every present key k, get(k) is a
\* value and get_by_index(get_index(k).unwrap()) is that same value.
C2_IndexRoundTrip ==
    \A k \in DOMAIN key_to_pos :
        /\ GetIndex(k).some
        /\ Get(k) \in {Some(v) : v \in Vals}
        /\ GetByIndex(GetIndex(k).v) = Get(k)

\* A state with two keys of different values, one of them above a free slot.
C2_Witness ==
    /\ Callable
    /\ \E k1, k2 \in DOMAIN key_to_pos :
          /\ Get(k1) # Get(k2)
          /\ \E i \in EmptyIndices : i < GetIndex(k1).v
          /\ GetByIndex(GetIndex(k1).v) = Get(k1)

\* C3: len() is the number of keys that are mapped to a value, and
\* 0 <= len() <= index_len().
C3_LenBounds ==
    /\ MapLen = Cardinality({k \in Keys : Get(k) # None})
    /\ 0 <= MapLen
    /\ MapLen <= IndexLen

\* A state with a free slot next to two occupied ones: len() < index_len().
C3_Witness ==
    /\ Callable
    /\ MapLen = 2
    /\ IndexLen = 3

\* C4: whenever the map can be called, get_by_index(i) is a value exactly
\* for the indices i that are get_index(k) of a key k, and then it is get(k);
\* it is None for every i >= index_len().
C4_ByIndexIffKey ==
    iter.kind # "drain" =>
        \A i \in 0..(IndexLen + 1) :
            /\ GetByIndex(i).some <=> \E k \in Keys : GetIndex(k) = Some(i)
            /\ \A k \in Keys : GetIndex(k) = Some(i) => GetByIndex(i) = Get(k)
            /\ i >= IndexLen => GetByIndex(i) = None

\* A state with an occupied index above a free one.
C4_Witness ==
    /\ Callable
    /\ \E i, j \in 0..(IndexLen - 1) :
          /\ i < j
          /\ GetByIndex(i) = None
          /\ GetByIndex(j).some
          /\ \E k \in Keys : GetIndex(k) = Some(j)

\* The indices that hold a value, and the number of slots that hold none.
KeyIndices == {GetIndex(k).v : k \in DOMAIN key_to_pos}
FreeCount == Cardinality(EmptyIndices)

\* C5: when force_compact() has returned, index_len() = len(), the indices
\* of the keys are exactly 0..len()-1, and every slot below index_len()
\* holds a value.
C5_ForceCompactDense ==
    op.name = "force_compact" =>
        /\ IndexLen = MapLen
        /\ KeyIndices = 0..(MapLen - 1)
        /\ \A i \in 0..(IndexLen - 1) : GetByIndex(i).some

\* force_compact() has moved a value into a slot that was free before it.
C5_Witness ==
    /\ op.name = "force_compact"
    /\ MapLen >= 1
    /\ pre.len > IndexLen
    /\ \E f \in pre.free : f < IndexLen

\* C6: compact() and force_compact() leave the set of keys, len() and
\* get(k) of every key as they were; only indices change.
C6_CompactKeepsContents ==
    [][op'.name \in {"compact", "force_compact"}
       => /\ DOMAIN key_to_pos' = DOMAIN key_to_pos
          /\ MapLen' = MapLen
          /\ \A k \in Keys : Get(k)' = Get(k)]_vars

\* force_compact() has moved one of two keys that hold different values.
C6_Witness ==
    /\ op.name = "force_compact"
    /\ \E k1, k2 \in DOMAIN key_to_pos :
          /\ Get(k1) # Get(k2)
          /\ GetIndex(k1).v \in pre.free

\* C7: compact() changes nothing when
\* free_count <= max(index_len() / 2, 8); otherwise it compacts the map
\* completely, so that index_len() = len() afterwards.
C7_CompactThreshold ==
    [][op'.name = "compact"
       => IF FreeCount <= Max(IndexLen \div 2, MinFree)
          THEN /\ IndexLen' = IndexLen
               /\ EmptyIndices' = EmptyIndices
               /\ \A k \in BigKeys : GetIndex(k)' = GetIndex(k)
          ELSE /\ IndexLen' = MapLen'
               /\ EmptyIndices' = {}]_vars

\* compact() has compacted a map that had more free slots than the bound.
C7_Witness ==
    /\ op.name = "compact"
    /\ Cardinality(pre.free) > Max(pre.len \div 2, MinFree)
    /\ IndexLen < pre.len
    /\ MapLen >= 1

\* C8 as the specification words it: compact() changes nothing unless
\* free_count > max(occupied_count / 2, 8), and compacts otherwise.
C8_OccupiedBound ==
    [][op'.name = "compact"
       => IF FreeCount > Max(MapLen \div 2, MinFree)
          THEN IndexLen' = MapLen'
          ELSE IndexLen' = IndexLen]_vars

\* C8: compact() changes nothing unless
\* free_count > max(index_len() / 2, 8), index_len() counting the occupied
\* and the free slots; beyond that bound it does what force_compact() does.
C8_IndexLenBound ==
    [][op'.name = "compact"
       => IF Cardinality(free_list) > Max(IndexLen \div 2, MinFree)
          THEN Storage' = LsForceCompact(Storage)
          ELSE Storage' = Storage]_vars

\* compact() has left alone a map whose free slots are more than
\* max(occupied_count / 2, 8) but no more than max(index_len() / 2, 8).
C8_Witness ==
    /\ op.name = "compact"
    /\ Cardinality(pre.free) > Max((pre.len - Cardinality(pre.free)) \div 2, MinFree)
    /\ Cardinality(pre.free) <= Max(pre.len \div 2, MinFree)
    /\ IndexLen = pre.len

\* C9: inserting a key that is not present gives it the smallest index of
\* the free list and leaves index_len() alone when some slot is free;
\* otherwise the key gets the old index_len(), which grows by one.
C9_ReuseBeforeGrow ==
    [][\A k \in Keys :
          op'.name = "insert" /\ op'.key = k /\ ~ContainsKey(k)
          => IF EmptyIndices # {}
             THEN /\ FreeIndices # {}
                  /\ GetIndex(k)' = Some(MinOf(FreeIndices))
                  /\ IndexLen' = IndexLen
             ELSE /\ GetIndex(k)' = Some(IndexLen)
                  /\ IndexLen' = IndexLen + 1]_vars

\* An absent key has been inserted while two slots were free.
C9_Witness ==
    /\ op.name = "insert"
    /\ pre.idx = None
    /\ Cardinality(pre.free) >= 2
    /\ IndexLen = pre.len

\* The last call inserted an absent key and the call before it removed the
\* key at the smallest occupied index.
RemovedSmallestThenInserted ==
    /\ op.name = "insert"
    /\ pre.idx = None
    /\ before.op.name = "remove"
    /\ before.pre.idx.some
    /\ \A i \in 0..(before.pre.len - 1) :
          i \notin before.pre.free => before.pre.idx.v <= i

\* C10 as the specification words it: after the key at the smallest occupied
\* index is removed, the next inserted key gets that index.
C10_SameIndex ==
    RemovedSmallestThenInserted => GetIndex(op.key) = before.pre.idx

\* C10: after the key at the smallest occupied index is removed, the next
\* inserted key gets the smallest free index: the index of the removed key
\* when no slot below it is free, a smaller one otherwise.
C10_SmallestFree ==
    RemovedSmallestThenInserted =>
        /\ GetIndex(op.key) = Some(MinOf(before.pre.free \cup {before.pre.idx.v}))
        /\ (\A f \in before.pre.free : f > before.pre.idx.v)
              => GetIndex(op.key) = before.pre.idx

\* The removed key was at the smallest occupied index with a free slot above
\* it and none below, and the inserted key is where it was.
C10_Witness ==
    /\ RemovedSmallestThenInserted
    /\ before.pre.free # {}
    /\ \A f \in before.pre.free : f > before.pre.idx.v
    /\ GetIndex(op.key) = before.pre.idx

\* C12: and_replace_entry_with on a present key whose closure returns
\* Some(v') leaves get_index of that key as it was, whatever the free list
\* holds.  It does not: the value is taken out of its slot and stored again
\* at the smallest free index.
C12_ReplaceKeepsIndex ==
    [][\A k \in Keys :
          (/\ op'.name = "and_replace_entry_with"
           /\ op'.key = k
           /\ ContainsKey(k)
           /\ op'.val.some)
          => GetIndex(k)' = GetIndex(k)]_vars

\* C13 as the specification words it: no step other than clear(), compact()
\* and force_compact() makes index_len() smaller.
C13_OnlyClearAndCompactShrink ==
    [][~(Clear \/ Compact \/ ForceCompact) => IndexLen' >= IndexLen]_vars

\* C13: no step other than clear(), compact(), force_compact() and the drop
\* of the iterator of drain() makes index_len() smaller.
C13_IndexLenMonotone ==
    [][~(Clear \/ Compact \/ ForceCompact \/ DrainDrop)
       => IndexLen' >= IndexLen]_vars

\* All keys have been removed from a map that was never cleared or drained,
\* and index_len() still counts their slots.
C13_Witness ==
    /\ Callable
    /\ tag = 0
    /\ MapLen = 0
    /\ IndexLen = NumKeys

\* C14: from every reachable state, a second compact() right after the first
\* leaves the storage, and with it every key's value and index, index_len()
\* and the free list, exactly as the first call left it; and so does a
\* second force_compact().
C14_CompactIdempotent ==
    Callable =>
        /\ LsCompact(LsCompact(Storage)) = LsCompact(Storage)
        /\ LsForceCompact(LsForceCompact(Storage)) = LsForceCompact(Storage)

\* A state that compact() changes, and that a second compact() then leaves.
C14_Witness ==
    /\ Callable
    /\ MapLen >= 1
    /\ LsCompact(Storage) # Storage
    /\ Len(LsCompact(Storage).values) < IndexLen
    /\ LsCompact(LsCompact(Storage)) = LsCompact(Storage)

\* C15: insert(k, v) for a present key returns the old value, makes get(k)
\* the new one, and leaves len(), index_len(), the free list, the empty
\* slots, the position cells and get_index of every key as they were.
C15_InsertPresent ==
    [][\A k \in Keys :
          op'.name = "insert" /\ op'.key = k /\ ContainsKey(k)
          => /\ op'.ret \in {Some(v) : v \in Vals}
             /\ op'.ret = Get(k)
             /\ Get(k)' = Some(op'.val)
             /\ MapLen' = MapLen
             /\ IndexLen' = IndexLen
             /\ FreeIndices' = FreeIndices
             /\ EmptyIndices' = EmptyIndices
             /\ UNCHANGED <<free_list, heap, key_to_pos>>
             /\ \A j \in Keys : GetIndex(j)' = GetIndex(j)]_vars

\* A present key above a free slot has been given a different value.
C15_Witness ==
    /\ op.name = "insert"
    /\ pre.idx.some
    /\ op.ret # Some(op.val)
    /\ \E f \in pre.free : f < pre.idx.v
    /\ Get(op.key) = Some(op.val)

\* C16: remove(k) and remove_entry(k) for a present key return its value,
\* make len() one less, leave index_len() alone, make get_by_index at the
\* index k had None, put exactly that index on the free list, and leave the
\* value and the index of every other key as they were.
C16_RemovePresent ==
    [][\A k \in Keys : \A i \in 0..(IndexLen - 1) :
          (/\ op'.name \in {"remove", "remove_entry"}
           /\ op'.key = k
           /\ GetIndex(k) = Some(i))
          => /\ op'.ret \in {Some(v) : v \in Vals}
             /\ op'.ret = Get(k)
             /\ MapLen' = MapLen - 1
             /\ IndexLen' = IndexLen
             /\ GetByIndex(i)' = None
             /\ Get(k)' = None
             /\ i \notin FreeIndices
             /\ FreeIndices' = FreeIndices \cup {i}
             /\ Cardinality(free_list') = Cardinality(free_list) + 1
             /\ \A j \in Keys \ {k} :
                   /\ Get(j)' = Get(j)
                   /\ GetIndex(j)' = GetIndex(j)]_vars

\* remove_entry has taken a key out from between two others that hold
\* different values.
C16_Witness ==
    /\ op.name = "remove_entry"
    /\ pre.idx = Some(1)
    /\ pre.len = 3
    /\ pre.free = {}
    /\ MapLen = 2
    /\ GetByIndex(0) # GetByIndex(2)
    /\ GetByIndex(1) = None

\* The map proper: hash index and storage.
MapState == <<key_to_pos, tag, values, free_list, heap, ub>>

\* C17: for an absent key get, get_key_value and get_index are None and
\* contains_key is false, and get_by_index is None for an index that is empty
\* or not below index_len(); get_mut, remove and remove_entry on an absent key
\* and get_by_index_mut on such an index return None and change nothing.
C17_AbsenceIsNone ==
    [][/\ \A k \in Keys \ DOMAIN key_to_pos :
             /\ Get(k) = None
             /\ GetKeyValue(k) = None
             /\ GetIndex(k) = None
             /\ ~ContainsKey(k)
       /\ \A i \in 0..(NumKeys + 1) :
             (i >= IndexLen \/ i \in EmptyIndices) => GetByIndex(i) = None
       /\ \A k \in Keys :
             (/\ op'.name \in {"get_mut", "remove", "remove_entry"}
              /\ op'.key = k
              /\ ~ContainsKey(k))
             => op'.ret = None /\ UNCHANGED MapState
       /\ \A i \in 0..NumKeys :
             (/\ op'.name = "get_by_index_mut"
              /\ op'.val.index = i
              /\ (i >= IndexLen \/ i \in EmptyIndices))
             => op'.ret = None /\ UNCHANGED MapState]_vars

\* get_by_index_mut has been called on an empty slot below an occupied one.
C17_Witness ==
    /\ op.name = "get_by_index_mut"
    /\ op.ret = None
    /\ op.val.index \in EmptyIndices
    /\ \E j \in OccupiedIndices : op.val.index < j

\* C18: when clear() has returned, len() and index_len() are 0, get(k) is
\* None for every key, get_by_index(i) is None for every index, and the free
\* list is empty; and the key inserted by the next call gets index 0.
C18_ClearRestarts ==
    /\ op.name = "clear"
       => /\ MapLen = 0
          /\ IndexLen = 0
          /\ \A k \in Keys : Get(k) = None /\ GetIndex(k) = None
          /\ \A i \in 0..NumKeys : GetByIndex(i) = None
          /\ free_list = {}
          /\ FreeIndices = {}
    /\ before.op.name = "clear" /\ op.name = "insert"
       => /\ GetIndex(op.key) = Some(0)
          /\ IndexLen = 1
          /\ ~ub

\* clear() has emptied a map that had an occupied and a free slot, and the
\* key inserted next is at index 0.
C18_Witness ==
    /\ before.op.name = "clear"
    /\ before.pre.len >= 2
    /\ before.pre.free # {}
    /\ Cardinality(before.pre.free) < before.pre.len
    /\ op.name = "insert"
    /\ GetIndex(op.key) = Some(0)

\* C19: the iterator of drain() returns only pairs the map held at the call
\* and none of them twice; when it has returned None it has returned all of
\* them; and when it has been dropped, wherever it had got to, len() and
\* index_len() are 0 and no index holds a value.
C19_DrainYieldsAllOnce ==
    /\ iter.kind = "drain"
       => /\ iter.yielded \subseteq iter.at_call
          /\ iter.count = Cardinality(iter.yielded)
          /\ \A p \in iter.yielded : p.key \notin DOMAIN iter.rest
          /\ Cardinality(iter.at_call)
                = iter.count + Cardinality(DOMAIN iter.rest)
    /\ op.name = "drain_next" /\ op.ret.some
       => [key |-> op.key, value |-> op.ret.v] \in iter.at_call
    /\ op.name = "drain_next" /\ op.ret = None
       => /\ iter.yielded = iter.at_call
          /\ iter.count = Cardinality(iter.at_call)
    /\ op.name = "drain_drop"
       => /\ Callable
          /\ MapLen = 0
          /\ IndexLen = 0
          /\ free_list = {}
          /\ \A k \in Keys : Get(k) = None
          /\ \A i \in 0..NumKeys : GetByIndex(i) = None

\* A Drain that had returned some pairs and not others has been dropped.
C19_Witness ==
    /\ op.name = "drain_drop"
    /\ op.val.yielded >= 1
    /\ op.val.left # {}
    /\ IndexLen = 0

\* C20: extract_if takes nothing out of the map when it is called or when
\* its iterator is dropped; a next() that returns a pair takes exactly that
\* key out, empties its slot and puts its index on the free list, and a
\* next() that returns None takes nothing out; every key still present after
\* a next() has the index it had, index_len() is as it was, and len() is the
\* number of occupied slots.
C20_ExtractIfLazy ==
    [][/\ op'.name \in {"extract_if", "extract_drop"} => UNCHANGED MapState
       /\ op'.name = "extract_next"
          => /\ IF op'.ret.some
                THEN \E h \in DOMAIN key_to_pos : \E i \in 0..(IndexLen - 1) :
                        /\ h = op'.key
                        /\ GetIndex(h) = Some(i)
                        /\ DOMAIN key_to_pos' = DOMAIN key_to_pos \ {h}
                        /\ GetByIndex(i)' = None
                        /\ FreeIndices' = FreeIndices \cup {i}
                ELSE /\ DOMAIN key_to_pos' = DOMAIN key_to_pos
                     /\ FreeIndices' = FreeIndices
             /\ \A j \in Keys :
                   j \in DOMAIN key_to_pos' => GetIndex(j)' = GetIndex(j)
             /\ IndexLen' = IndexLen
             /\ MapLen' = Cardinality(OccupiedIndices')
             /\ ~ub']_vars

\* next() has returned a pair while keys it has not visited are still in the
\* map, and the slot of the pair is empty.
C20_Witness ==
    /\ op.name = "extract_next"
    /\ op.ret.some
    /\ iter.kind = "extract_if"
    /\ iter.unvisited # {}
    /\ iter.unvisited \subseteq DOMAIN key_to_pos
    /\ GetByIndex(pre.idx.v) = None

\* C21: retain(f) hands every pair of the map to f exactly once, with the
\* value the pair has; the keys for which f answers false, and only they,
\* leave the map, and their indices join the free indices; a key that is
\* kept keeps its index and has the value f left in it (its old value when
\* f does not write); index_len() is the same.  The state after the call is
\* the one that extract_if with the negated predicate leaves when it is
\* consumed to the end, and it is the same for every order in which the
\* hash index may visit the keys.
C21_RetainRemovesExactly ==
    [][op'.name = "retain" =>
         \E rm \in SUBSET DOMAIN key_to_pos :
            /\ rm = op'.val.rm
            /\ op'.val.ncalls = MapLen
            /\ op'.val.handed
                 = {[key |-> k, value |-> PvGetUnchecked(Storage, key_to_pos[k])] :
                      k \in DOMAIN key_to_pos}
            /\ \A k \in DOMAIN key_to_pos : PvGetUnchecked(Storage, key_to_pos[k]).defined
            /\ DOMAIN key_to_pos' = DOMAIN key_to_pos \ rm
            /\ FreeIndices' = FreeIndices \cup {GetIndex(k).v : k \in rm}
            /\ IndexLen' = IndexLen
            /\ \A k \in DOMAIN key_to_pos \ rm :
                  /\ GetIndex(k)' = GetIndex(k)
                  /\ Get(k)' = Some(op'.val.w[k])
                  /\ op'.val.w[k] = Get(k).v => Get(k)' = Get(k)
            /\ \A o \in Orders(DOMAIN key_to_pos) :
                  LET r == RetainLoop(MapRecord, o, 1, rm, op'.val.w)
                      e == ExtractIfAll(MapRecord, o, 1, rm, op'.val.w)
                  IN  /\ r.key_to_pos = key_to_pos' /\ r.s = Storage'
                      /\ e.key_to_pos = key_to_pos' /\ e.s = Storage'
    ]_vars

\* retain() has removed one key of a map with a hole and kept two, writing
\* the value of one of them.
C21_Witness ==
    /\ op.name = "retain"
    /\ Cardinality(op.val.rm) = 1
    /\ MapLen = 2
    /\ Cardinality(FreeIndices) >= 1
    /\ \E c \in op.val.handed :
          /\ c.key \in DOMAIN key_to_pos
          /\ Get(c.key) # Some(c.value.v)

\* C22: clone() of a map in any state, with or without holes, gives a map
\* that compares equal to the source, in either direction, and whose
\* index_len() is its len(); the source is as it was, and the two maps own
\* no cell in common.  Afterwards a call on one of the two maps leaves the
\* other as it was: its fields, its cells and with them its pairs and their
\* indices.
C22_CloneEqualDenseApart ==
    [][/\ Clone =>
            /\ MapEq(SelfMap, OtherMap)'
            /\ MapEq(OtherMap, SelfMap)'
            /\ IndexLenOf(OtherMap)' = LenOf(OtherMap)'
            /\ LenOf(OtherMap)' = MapLen
            /\ UNCHANGED <<key_to_pos, tag, values, free_list>>
            /\ \A c \in CellsOf(SelfMap) : c \in DOMAIN heap' /\ heap'[c] = heap[c]
            /\ CellsOf(OtherMap)' \cap CellsOf(SelfMap)' = {}
            /\ ~ub'
       /\ (other.on /\ ~Clone /\ ~Turn) =>
            /\ other' = other
            /\ \A c \in CellsOf(OtherMap) : c \in DOMAIN heap' /\ heap'[c] = heap[c]
            /\ PairsOf(OtherMap)' = PairsOf(OtherMap)
            /\ \A k \in DOMAIN other.key_to_pos :
                  PosGet(heap', other.key_to_pos[k]) = PosGet(heap, other.key_to_pos[k])
    ]_vars

\* A map with a hole (key 2 at index 1, index 0 free) beside a dense map
\* equal to it, in which key 2 has index 0.
C22_Witness ==
    /\ other.on
    /\ DOMAIN key_to_pos = {2}
    /\ GetIndex(2) = Some(1)
    /\ FreeIndices = {0}
    /\ MapEq(SelfMap, OtherMap)
    /\ IndexLenOf(OtherMap) = 1
    /\ PosGet(heap, other.key_to_pos[2]) = 0

\* C23: two maps compare equal exactly when they hold the same set of
\* (key, value) pairs, whatever the indices of the keys, index_len(), the
\* free lists and the calls that led there; the comparison gives the same
\* answer in both directions and a map equals itself; and what compact()
\* or force_compact() makes of a map compares equal to the map as it is.
C23_EqIsPairSetEquality ==
    /\ other.on =>
         /\ MapEq(SelfMap, OtherMap) <=> (PairsOf(SelfMap) = PairsOf(OtherMap))
         /\ MapEq(SelfMap, OtherMap) <=> MapEq(OtherMap, SelfMap)
         /\ MapEq(OtherMap, OtherMap)
    /\ MapEq(SelfMap, SelfMap)
    /\ \A c \in {LsCompact(Storage), LsForceCompact(Storage)} :
         /\ MapEq(SelfMap, [key_to_pos |-> key_to_pos, s |-> c])
         /\ MapEq([key_to_pos |-> key_to_pos, s |-> c], SelfMap)

\* Two maps that compare equal while key 1 and key 2 have exchanged their
\* indices from one map to the other.
C23_Witness ==
    /\ other.on
    /\ MapEq(SelfMap, OtherMap)
    /\ GetIndex(1) = Some(1)
    /\ GetIndex(2) = Some(0)
    /\ PosGet(heap, other.key_to_pos[1]) = 0
    /\ PosGet(heap, other.key_to_pos[2]) = 1

\* C24: try_insert(k, v) on a present key changes nothing (the value and
\* the index of k, len(), index_len(), the free list, every slot) and
\* returns an error that holds the occupied entry of k, with the value k
\* has, and the rejected v; on an absent key it does what insert does (the
\* value goes to the smallest free index, or to a new slot when none is
\* free, every other key is untouched) and the reference it returns reads v.
C24_TryInsert ==
    [][op'.name = "try_insert" =>
         \A k \in Keys :
            op'.key = k =>
               IF ContainsKey(k)
               THEN /\ UNCHANGED MapState
                    /\ Get(k)' = Get(k) /\ GetIndex(k)' = GetIndex(k)
                    /\ MapLen' = MapLen /\ IndexLen' = IndexLen
                    /\ FreeIndices' = FreeIndices
                    /\ op'.ret = [err |-> TRUE,
                                  entry |-> [key |-> k, get |-> Get(k)],
                                  value |-> op'.val]
               ELSE /\ InsertVacant(k, op'.val)
                    /\ op'.ret = [err |-> FALSE, ok |-> Some(op'.val)]
                    /\ Get(k)' = Some(op'.val)
                    /\ GetIndex(k)' = IF FreeIndices = {}
                                      THEN Some(IndexLen)
                                      ELSE Some(MinOf(FreeIndices))
                    /\ MapLen' = MapLen + 1
                    /\ \A j \in DOMAIN key_to_pos :
                          Get(j)' = Get(j) /\ GetIndex(j)' = GetIndex(j)
    ]_vars

\* try_insert has just been refused on a key whose value differs from the
\* one handed in, in a map with a free index.
C24_Witness ==
    /\ op.name = "try_insert"
    /\ op.ret.err
    /\ op.ret.value # op.ret.entry.get.v
    /\ Get(op.key) = op.ret.entry.get
    /\ FreeIndices # {}

\* C25: get_many_mut and get_many_key_value_mut panic, leaving the map as it
\* is, when two of the requested keys are the same present key.  Otherwise
\* they return, position by position, None for an absent key and for a
\* present key a reference to its value (with the key, for
\* get_many_key_value_mut); the references are to the slots at the indices
\* of their keys, which are pairwise distinct, so that the caller can write
\* through all of them: afterwards every requested present key has the
\* value written through its reference and no other value has changed.
C25_GetManyMut ==
    [][op'.name \in {"get_many_mut", "get_many_key_value_mut"} =>
         \E ks \in [1..ManyLen -> Keys] :
            /\ ks = op'.val.ks
            /\ IF \E i, j \in 1..ManyLen : i < j /\ ks[i] = ks[j] /\ ContainsKey(ks[i])
               THEN /\ op'.ret.panic
                    /\ UNCHANGED MapState
               ELSE /\ ~op'.ret.panic
                    /\ ~ub'
                    /\ \A i \in 1..ManyLen :
                          IF ContainsKey(ks[i])
                          THEN /\ op'.ret.refs[i] = [some |-> TRUE,
                                                     slot |-> GetIndex(ks[i]).v,
                                                     v    |-> Get(ks[i]).v]
                               /\ op'.ret.keys[i] =
                                     IF op'.name = "get_many_key_value_mut"
                                     THEN Some(ks[i])
                                     ELSE None
                               /\ Get(ks[i])' = Some(op'.val.ws[i])
                          ELSE /\ op'.ret.refs[i] = None
                               /\ op'.ret.keys[i] = None
                    /\ \A i, j \in 1..ManyLen :
                          (i # j /\ op'.ret.refs[i].some /\ op'.ret.refs[j].some)
                             => op'.ret.refs[i].slot # op'.ret.refs[j].slot
                    /\ \A k \in DOMAIN key_to_pos :
                          (\A i \in 1..ManyLen : ks[i] # k) => Get(k)' = Get(k)
                    /\ UNCHANGED <<key_to_pos, tag, free_list, heap>>
    ]_vars

\* get_many_mut has returned two references into a map with a hole, and
\* the caller has written a different value through each.
C25_Witness ==
    /\ op.name = "get_many_mut"
    /\ ~op.ret.panic
    /\ \A i \in 1..ManyLen : op.ret.refs[i].some
    /\ op.val.ws[1] # op.val.ws[2]
    /\ Get(op.val.ks[1]) = Some(op.val.ws[1])
    /\ Get(op.val.ks[2]) = Some(op.val.ws[2])
    /\ FreeIndices # {}

\* C26 as stated: index_len() == len() exactly in the states right after a
\* forced compaction or with an empty slot array.  A map that has only been
\* inserted into is dense without either.
C26_DenseOnlyAfterForceCompact ==
    (IndexLen = MapLen) <=> (op.name = "force_compact" \/ IndexLen = 0)

\* C26: index_len() >= len() in every state, the difference being the
\* number of handles on the free list; index_len() == len() exactly when no
\* index below index_len() is free, which is so right after force_compact(),
\* right after clear() and on an empty slot array, but also whenever every
\* index freed by a removal has been taken again by an insertion.
C26_DenseIffNoFreeIndex ==
    /\ IndexLen >= MapLen
    /\ IndexLen - MapLen = Cardinality(free_list)
    /\ (IndexLen = MapLen) <=> (FreeIndices = {})
    /\ (IndexLen = MapLen) <=> (EmptyIndices = {})
    /\ op.name = "force_compact" => IndexLen = MapLen
    /\ op.name = "clear" => IndexLen = 0
    /\ IndexLen = 0 => MapLen = 0

\* An insertion has taken the only free index: the map is dense and not
\* empty, and the last call was no compaction.
C26_Witness ==
    /\ op.name = "insert"
    /\ Cardinality(pre.free) = 1
    /\ IndexLen = MapLen
    /\ MapLen >= 2

\* C27: in every state the calls of the map leave behind, also while an
\* extract_if or drain iterator is under way, every handle in the hash
\* index points to an allocated cell whose index is below index_len(), the
\* slot at that index is occupied by the value that owns that very cell,
\* and the tag of the cell is the tag of the storage; and no unchecked
\* access was undefined and no assertion of the test build (the tag
\* comparisons on handle access among them) has failed.
C27_HandlesValid ==
    /\ ~ub
    /\ \A k \in DOMAIN key_to_pos :
          /\ key_to_pos[k] \in DOMAIN heap
          /\ InBounds(values, PosGet(heap, key_to_pos[k]))
          /\ Slot(values, PosGet(heap, key_to_pos[k])).some
          /\ Slot(values, PosGet(heap, key_to_pos[k])).pos = key_to_pos[k]
          /\ PosTag(heap, key_to_pos[k]) = tag
          /\ PvGetUncheckedDefined(Storage, key_to_pos[k])

\* A map of the second generation (after a clear()) that holds two keys
\* beside a free index.
C27_Witness ==
    /\ tag = MaxTag
    /\ MapLen = 2
    /\ FreeIndices # {}
    /\ iter = NoIter

\* C28: in every state the calls of the map leave behind, every handle on
\* the free list points to an allocated cell with the tag of the storage
\* whose index is below index_len() and whose slot is None, and no two
\* handles on the free list have the same index; the free indices are all
\* the empty slots there are.  Hence store() and the relocation of compact
\* always write to a slot that is None: the flag that a write to an
\* occupied slot, or a failed assertion, would set is never set.
C28_FreeListValid ==
    /\ ~ub
    /\ \A c \in free_list :
          /\ c \in DOMAIN heap
          /\ PosTag(heap, c) = tag
          /\ InBounds(values, PosGet(heap, c))
          /\ ~Slot(values, PosGet(heap, c)).some
    /\ \A c, d \in free_list : c # d => PosGet(heap, c) # PosGet(heap, d)
    /\ FreeIndices = EmptyIndices
    /\ free_list # {} => ~PvStore([Storage EXCEPT !.free_list = @ \ {PopMin(Storage)}],
                                  PopMin(Storage), 1).s.ub

\* A map of the second generation whose free list holds the indices 0 and
\* 2, on either side of the one key it holds.
C28_Witness ==
    /\ tag = MaxTag
    /\ FreeIndices = {0, 2}
    /\ OccupiedIndices = {1}
    /\ Cardinality(free_list) = 2

\* C29: in every state, the cell owned by the occupied slot at index i reads
\* i, and it is the cell of the handle that the hash index holds for exactly
\* one key, whose get_index is therefore i.  compact() and force_compact()
\* do not touch the hash index: a key that they move keeps its handle, and
\* the handle reads the new index because the one cell was rewritten.
C29_SlotAndHandleShareCell ==
    [][/\ \A i \in OccupiedIndices' :
             /\ PosGet(heap', Slot(values', i).pos) = i
             /\ Cardinality({k \in DOMAIN key_to_pos' :
                                key_to_pos'[k] = Slot(values', i).pos}) = 1
             /\ \A k \in DOMAIN key_to_pos' :
                   key_to_pos'[k] = Slot(values', i).pos => GetIndex(k)' = Some(i)
       /\ op'.name \in {"compact", "force_compact"} =>
             /\ key_to_pos' = key_to_pos
             /\ \A k \in DOMAIN key_to_pos :
                   /\ GetIndex(k)'.v \in OccupiedIndices'
                   /\ Slot(values', GetIndex(k)'.v).pos = key_to_pos[k]
                   /\ Slot(values', GetIndex(k)'.v).value = Get(k).v
    ]_vars

\* force_compact() has moved key 3 from the last slot to index 0, which was
\* free, beside another key.
C29_Witness ==
    /\ op.name = "force_compact"
    /\ 0 \in pre.free
    /\ pre.len = 3
    /\ GetIndex(3) = Some(0)
    /\ MapLen = 2

\* C30: in every state the live handles, those owned by the occupied slots
\* and those on the free list, are distinct cells with pairwise distinct
\* indices, one per slot of the vector; and two different keys of the map
\* never have the same get_index.
C30_IndicesDistinct ==
    /\ \A c, d \in StoredCells(values) \cup free_list :
          c # d => PosGet(heap, c) # PosGet(heap, d)
    /\ StoredCells(values) \cap free_list = {}
    /\ Cardinality(StoredCells(values)) = Cardinality(OccupiedIndices)
    /\ {PosGet(heap, c) : c \in StoredCells(values) \cup free_list}
          = 0..(IndexLen - 1)
    /\ \A k, j \in DOMAIN key_to_pos :
          k # j => /\ key_to_pos[k] # key_to_pos[j]
                   /\ GetIndex(k) # GetIndex(j)

\* Three live handles at three indices: two keys at the indices 0 and 2
\* and a free handle between them, while extract_if is under way.
C30_Witness ==
    /\ MapLen = 2
    /\ FreeIndices = {1}
    /\ IndexLen = 3
    /\ iter.kind = "extract_if"

\* C31: force_compact() brings index_len() down to len(); a key whose index
\* is below len() keeps it; the keys at len() and above are the ones that
\* move, to the free indices below len(), the key at the highest index to
\* the smallest of them, the next-highest to the next-smallest, and so on;
\* no key gets a larger index than it had.
C31_ForceCompactMovesTail ==
    [][op'.name = "force_compact" =>
         /\ IndexLen' = MapLen
         /\ key_to_pos' = key_to_pos
         /\ \A k \in DOMAIN key_to_pos :
               /\ GetIndex(k)'.v <= GetIndex(k).v
               /\ GetIndex(k).v < MapLen => GetIndex(k)' = GetIndex(k)
               /\ GetIndex(k).v >= MapLen =>
                     /\ GetIndex(k)'.v \in FreeIndices
                     /\ GetIndex(k)'.v < MapLen
                     /\ Cardinality({j \in DOMAIN key_to_pos :
                                        GetIndex(j).v > GetIndex(k).v})
                          = Cardinality({f \in FreeIndices : f < GetIndex(k)'.v})
    ]_vars

\* force_compact() has found two keys at the indices 2 and 3 and the
\* indices 0 and 1 free, and has moved both keys.
C31_Witness ==
    /\ op.name = "force_compact"
    /\ pre.len = 4
    /\ pre.free = {0, 1}
    /\ MapLen = 2
    /\ IndexLen = 2

\* ---------------------------------------------------------------------
\* C32: compaction terminates from every reachable state.  A running
\* force_compact() always returns.  Each outer step that gets a handle takes
\* exactly one handle from the free list and leaves the array alone; each
\* inner step that gets a slot pops exactly one slot from the tail, except
\* the last one of a call that meets an occupied slot whose index is not
\* above the index of the handle in hand: that slot is pushed back unchanged
\* and the loops are left.  The loops are left only with the free list
\* exhausted or by that push; once the array is fully walked no slot is
\* touched any more.  The call returns the storage force_compact() is to
\* produce.
C32_CompactTerminates ==
    /\ (iter.kind = "compact") ~> (iter = NoIter)
    /\ [][/\ (iter.kind = "compact" /\ iter.at = "outer" /\ free_list # {}) =>
                /\ Cardinality(free_list') = Cardinality(free_list) - 1
                /\ free_list' \subseteq free_list
                /\ values' = values
                /\ iter'.at = "inner"
          /\ (iter.kind = "compact" /\ iter.at = "outer" /\ free_list = {}) =>
                /\ iter'.at = "done"
                /\ values' = values
          /\ (iter.kind = "compact" /\ iter.at = "inner" /\ values # <<>>) =>
                \/ /\ Len(values') = Len(values) - 1
                   /\ iter'.at \in {"inner", "outer"}
                \/ /\ values' = values
                   /\ iter'.at = "done"
                   /\ values[Len(values)].some
                   /\ Len(values) - 1 <= PosGet(heap, iter.free)
          /\ (iter.kind = "compact" /\ iter.at = "inner" /\ values = <<>>) =>
                /\ values' = <<>>
                /\ iter'.at = "outer"
          /\ (iter.kind = "compact" /\ iter.at = "done") =>
                /\ iter' = NoIter
                /\ [tag |-> tag', values |-> values', free_list |-> free_list',
                    heap |-> heap', ub |-> ub'] = LsForceCompact(iter.start)
          /\ (iter.kind = "compact" /\ iter.at # "done") =>
                Cardinality(free_list') + Len(values')
                   <= Cardinality(free_list) + Len(values)
      ]_vars

\* The loops of a force_compact() on four slots have moved a key and were
\* then left by pushing an occupied tail slot back.
C32_Witness ==
    /\ iter.kind = "compact"
    /\ iter.at = "done"
    /\ Len(iter.start.values) = 4
    /\ Len(values) = 2
    /\ \E k \in DOMAIN key_to_pos :
          PosGet(heap, key_to_pos[k]) < PosGet(iter.start.heap, key_to_pos[k])

\* ---------------------------------------------------------------------
\* C33 as stated: whenever the storage is cleared (the generation ends), the
\* hash index holds no handle any more, in clear() and in the drop of a
\* Drain alike.
C33_IndexEmptiedFirst ==
    [][tag' # tag => IndexHandles = {}]_vars

\* C33, corrected: whenever the storage is cleared the map's own table is
\* empty.  In clear() the hash index is emptied first and the storage
\* second.  In the drop of a Drain it is the other way round: the storage is
\* cleared by the body of drop while the hash_map::Drain still holds every
\* handle it has not yielded; they are dropped with it right after, unused,
\* and nothing else happens in between.
C33_StorageClearedOnEmptyTable ==
    [][/\ tag' # tag =>
            /\ key_to_pos = EmptyFn
            /\ key_to_pos' = EmptyFn
            /\ values' = <<>>
            /\ free_list' = {}
            /\ iter.kind \in {"clear", "drain"}
            /\ iter.kind = "clear" => IndexHandles = {} /\ iter' = NoIter
            /\ iter.kind = "drain" =>
                  /\ iter'.kind = "drain_drop"
                  /\ iter'.rest = iter.rest
       /\ iter.kind = "drain_drop" =>
            /\ iter' = NoIter
            /\ UNCHANGED <<key_to_pos, tag, values, free_list, heap, ub>>
       /\ (iter = NoIter /\ iter'.kind = "clear") =>
            /\ key_to_pos' = EmptyFn
            /\ UNCHANGED <<tag, values, free_list, heap, ub>>
      ]_vars

\* The body of Drain::drop has cleared the storage, and the Drain still holds
\* handles it has not yielded.
C33_Witness ==
    /\ iter.kind = "drain_drop"
    /\ iter.rest # EmptyFn
    /\ iter.count >= 1
    /\ values = <<>>
    /\ tag = 1

\* ---------------------------------------------------------------------
\* C34: every way of inserting an absent key k with value v leaves the map
\* in the state insert(k, v) would leave it in: the storage and the hash
\* index are those of insert's vacant branch, k gets the smallest free index
\* or else the old index_len(), that index leaves the free list and nothing
\* else does, len() grows by one and get(k) is v.  The or_* forms on a
\* present key leave every value, index and the free list as they were.
InsertNames ==
    {"insert", "try_insert", "insert_unique_unchecked"}
        \cup {f \o ".insert" : f \in EntryForms}
        \cup {f \o ".vacant.insert" : f \in EntryForms}
        \cup {f \o ".vacant.insert_entry" : f \in EntryForms}
        \cup {f \o "." \o h : f \in EntryForms, h \in OrHows}
OrNames == {f \o "." \o h : f \in EntryForms, h \in OrHows}
C34_InsertionsAgree ==
    [][\A k \in Keys, v \in Vals :
          (op'.name \in InsertNames /\ op'.key = k /\ op'.val = v) =>
             IF ~ContainsKey(k)
             THEN /\ key_to_pos' = key_to_pos @@ (k :> LsInsert(Storage, v).pos)
                  /\ Storage' = LsInsert(Storage, v).s
                  /\ GetIndex(k)' = Some(IF FreeIndices = {} THEN IndexLen
                                         ELSE MinOf(FreeIndices))
                  /\ FreeIndices' = FreeIndices \ {GetIndex(k)'.v}
                  /\ MapLen' = MapLen + 1
                  /\ Get(k)' = Some(v)
                  /\ \A j \in DOMAIN key_to_pos :
                        GetIndex(j)' = GetIndex(j) /\ Get(j)' = Get(j)
             ELSE op'.name \in OrNames =>
                     /\ UNCHANGED <<key_to_pos, tag, values, free_list, heap, ub>>
                     /\ Get(k)' = Get(k)
                     /\ GetIndex(k)' = GetIndex(k)
                     /\ FreeIndices' = FreeIndices
      ]_vars

\* entry_ref(k).or_insert_with_key(f) has put an absent key at a free index
\* below another key.
C34_Witness ==
    /\ op.name = "entry_ref.or_insert_with_key"
    /\ pre.idx = None
    /\ pre.free = {0}
    /\ pre.len = 2
    /\ GetIndex(op.key) = Some(0)
    /\ MapLen = 2

\* ---------------------------------------------------------------------
\* C35: replace_entry_with(f) on the occupied entry of k calls f once, with k
\* and k's current value.  If f returns None, k is absent afterwards, its
\* index joins the free indices, len() is one less and the entry returned is
\* Vacant.  If f returns Some(v'), k is present with get(k) = v', len() and
\* the number of free slots are what they were and the entry returned is
\* Occupied.  Other keys keep their value and index.  and_replace_entry_with
\* on a vacant entry calls nothing and changes nothing.
C35_ReplaceEntryWith ==
    [][\A k \in Keys :
          /\ (op'.name = "replace_entry_with" /\ op'.key = k) =>
                /\ ContainsKey(k)
                /\ op'.ret.calls = {[key |-> k, value |-> Get(k).v]}
                /\ \A j \in DOMAIN key_to_pos \ {k} :
                      Get(j)' = Get(j) /\ GetIndex(j)' = GetIndex(j)
                /\ IF op'.val.some
                   THEN /\ Get(k)' = op'.val
                        /\ MapLen' = MapLen
                        /\ Cardinality(free_list') = Cardinality(free_list)
                        /\ Cardinality(FreeIndices') = Cardinality(FreeIndices)
                        /\ op'.ret.entry = "Occupied"
                   ELSE /\ Get(k)' = None
                        /\ k \notin DOMAIN key_to_pos'
                        /\ FreeIndices' = FreeIndices \cup {GetIndex(k).v}
                        /\ Cardinality(free_list') = Cardinality(free_list) + 1
                        /\ MapLen' = MapLen - 1
                        /\ op'.ret.entry = "Vacant"
          /\ (op'.name = "and_replace_entry_with" /\ op'.key = k /\ ~ContainsKey(k)) =>
                /\ op'.ret.calls = {}
                /\ op'.ret.entry = "Vacant"
                /\ UNCHANGED <<key_to_pos, tag, values, free_list, heap, ub>>
      ]_vars

\* replace_entry_with has been given Some(v') with v' another value than the
\* key's, while an index below the key's was free.
C35_Witness ==
    /\ op.name = "replace_entry_with"
    /\ op.val.some
    /\ pre.idx = Some(1)
    /\ pre.free = {0}
    /\ \E c \in op.ret.calls : c.value # op.val.v
    /\ Get(op.key) = op.val
    /\ MapLen = 2

\* ---------------------------------------------------------------------
\* C36: in every state a call of the map or of one of its iterators leaves
\* behind, the indices on the free list are exactly the indices below
\* index_len() whose slot is empty, each of them on the list once; hence,
\* whenever the map can be called, the free list holds index_len() - len()
\* handles.
C36_FreeListIsEmptySlots ==
    /\ {PosGet(heap, c) : c \in free_list} = {i \in 0..(IndexLen - 1) : GetByIndex(i) = None}
    /\ Cardinality(free_list) = Cardinality({i \in 0..(IndexLen - 1) : GetByIndex(i) = None})
    /\ Cardinality(free_list) = IndexLen - Cardinality(OccupiedIndices)
    /\ Callable => Cardinality(free_list) = IndexLen - MapLen

\* Two of three slots are empty and on the free list, below the one key that
\* is left.
C36_Witness ==
    /\ Callable
    /\ IndexLen = 3
    /\ MapLen = 1
    /\ FreeIndices = {0, 1}
    /\ Cardinality(free_list) = IndexLen - MapLen

\* ---------------------------------------------------------------------
\* C37: in every state, also in the middle of a compaction, every allocated
\* position cell has exactly one owner: the occupied slot that stores it, a
\* handle on the free list, or the free handle the running compaction holds.
\* No cell has two owners, no owner holds a freed cell and no allocated cell
\* is without owner; between calls the number of allocated cells is
\* index_len().
C37_OneOwnerPerCell ==
    /\ \A i, j \in OccupiedIndices :
          i # j => Slot(values, i).pos # Slot(values, j).pos
    /\ StoredCells(values) \cap free_list = {}
    /\ StoredCells(values) \cap InFlight = {}
    /\ free_list \cap InFlight = {}
    /\ DOMAIN heap = StoredCells(values) \cup free_list \cup InFlight
    /\ iter = NoIter => Cardinality(DOMAIN heap) = IndexLen

\* A compaction of the second generation holds a free handle in its inner
\* loop while another is on the free list, after it has moved a key.
C37_Witness ==
    /\ InFlight # {}
    /\ free_list # {}
    /\ tag = MaxTag
    /\ Len(values) < Len(iter.start.values)
    /\ \E k \in DOMAIN key_to_pos :
          PosGet(heap, key_to_pos[k]) # PosGet(iter.start.heap, key_to_pos[k])

\* ---------------------------------------------------------------------
\* C38: whenever the map can be called, index_len() is at most the largest
\* value len() has had since the most recent clear, drain or performed
\* compaction; and a step that makes index_len() larger adds one key to a map
\* without free slot, in which len() was index_len(), and makes both larger
\* by one.
C38_IndexLenBelowPeak ==
    /\ [](Callable => (MapLen <= IndexLen /\ IndexLen <= peak))
    /\ [][IndexLen' > IndexLen =>
             /\ free_list = {}
             /\ EmptyIndices = {}
             /\ MapLen = IndexLen
             /\ IndexLen' = IndexLen + 1
             /\ MapLen' = MapLen + 1
             /\ peak' = MapLen'
       ]_vars

\* Two keys have been removed since len() was three and one has been added
\* again: index_len() is still three and len() is two.
C38_Witness ==
    /\ Callable
    /\ peak = 3
    /\ IndexLen = 3
    /\ MapLen = 2
    /\ FreeIndices = {2}

====
